---- MODULE Spec2Model ----
(***************************************************************************)
(* Natural-language front end of the Prolog data catalog                   *)
(* (src/nl_interface.py): startup, the deterministic pattern matcher, the  *)
(* optional Ollama path, query execution and result formatting.            *)
(*                                                                         *)
(* Text is modelled by TLA+ strings; TLC evaluates Len, SubSeq and \o on   *)
(* strings, so Python's str operations are written character by character. *)
(***************************************************************************)
EXTENDS Integers, Sequences, FiniteSets, TLC

VARIABLES
    pc,                 \* position of the process: see PcValues
    kb_exists,          \* os.path.exists('metadata_kb.pl')
    ds_exists,          \* os.path.exists('dataset_facts.pl')
    dp_exists,          \* os.path.exists('datapoint_facts.pl')
    use_ai,             \* self.use_ai (args.ai)
    arg_question,       \* ' '.join(args.question), None when no argument is given
    ollama_available,   \* self.ollama_available
    facts,              \* the clauses held by the Prolog engine (self.prolog)
    question,           \* the input being handled
    prolog_query,       \* result of translate_to_prolog, component 0
    message,            \* result of translate_to_prolog, component 1
    results,            \* result of query()
    formatted,          \* result of format_results()
    printed,            \* what the handling of the current input printed
    calls,              \* methods invoked for the current input
    ai_reply,           \* what /api/generate answered for the current input
    ai_requests,        \* POSTs sent to /api/generate for the current input
    exit_status,        \* process exit status, None while running
    turn,               \* inputs read by the interactive loop so far
    excel,              \* the sheets of the Excel file excel_to_prolog.py reads
    files,              \* the text of the fact files it writes, None if not written
    counts,             \* what the two converters returned
    rng                 \* the state of the random generator of generate_sample_data.py

vars == <<pc, kb_exists, ds_exists, dp_exists, use_ai, arg_question,
          ollama_available, facts, question, prolog_query, message, results,
          formatted, printed, calls, ai_reply, ai_requests, exit_status, turn,
          excel, files, counts, rng>>

None == "<None>"

(***************************************************************************)
(* Python str operations                                                   *)
(***************************************************************************)
CharAt(s, i) == SubSeq(s, i, i)

UpperAlpha == "ABCDEFGHIJKLMNOPQRSTUVWXYZ"
LowerAlpha == "abcdefghijklmnopqrstuvwxyz"

UpperChars == { CharAt(UpperAlpha, i) : i \in 1..26 }
LowerChars == { CharAt(LowerAlpha, i) : i \in 1..26 }
DigitChars == {"0", "1", "2", "3", "4", "5", "6", "7", "8", "9"}

to_lower == [c \in UpperChars |->
                CharAt(LowerAlpha, CHOOSE i \in 1..26 : CharAt(UpperAlpha, i) = c)]

LowerChar(c) == IF c \in UpperChars THEN to_lower[c] ELSE c

\* s.lower(), character by character
RECURSIVE lower(_)
lower(s) ==
    IF Len(s) = 0 THEN ""
    ELSE IF Len(s) = 1 THEN LowerChar(s)
    ELSE lower(SubSeq(s, 1, Len(s) \div 2)) \o lower(SubSeq(s, Len(s) \div 2 + 1, Len(s)))

IsSpace(c) == c \in {" ", "\n", "\t", "\r"}

SetMax(S) == CHOOSE c \in S : \A d \in S : d <= c
SetMin(S) == CHOOSE c \in S : \A d \in S : c <= d

\* s.strip(): from the first to the last character that is not whitespace
strip(s) ==
    IF \A i \in 1..Len(s) : IsSpace(CharAt(s, i)) THEN ""
    ELSE SubSeq(s,
                CHOOSE a \in 1..Len(s) :
                    ~IsSpace(CharAt(s, a)) /\ \A j \in 1..(a - 1) : IsSpace(CharAt(s, j)),
                CHOOSE b \in 1..Len(s) :
                    ~IsSpace(CharAt(s, b)) /\ \A j \in (b + 1)..Len(s) : IsSpace(CharAt(s, j)))

\* s[p : p+len(lit)] == lit
StartsAt(s, p, lit) ==
    /\ p + Len(lit) - 1 <= Len(s)
    /\ SubSeq(s, p, p + Len(lit) - 1) = lit

endswith(s, lit) ==
    /\ Len(lit) <= Len(s)
    /\ SubSeq(s, Len(s) - Len(lit) + 1, Len(s)) = lit

\* lit in s
contains(s, lit) == \E p \in 1..(Len(s) + 1) : StartsAt(s, p, lit)

\* s.find(lit) + 1, for a lit that occurs in s
find(s, lit) ==
    CHOOSE p \in 1..(Len(s) + 1) :
        StartsAt(s, p, lit) /\ \A r \in 1..(p - 1) : ~StartsAt(s, r, lit)

\* s.replace(old, ''): occurrences are removed left to right, non-overlapping
RECURSIVE remove(_, _)
remove(s, old) ==
    IF ~contains(s, old) THEN s
    ELSE SubSeq(s, 1, find(s, old) - 1)
           \o remove(SubSeq(s, find(s, old) + Len(old), Len(s)), old)

\* s.split('\n')[0]
first_line(s) == IF contains(s, "\n") THEN SubSeq(s, 1, find(s, "\n") - 1) ELSE s

(***************************************************************************)
(* Regular expressions of pattern_match.  A pattern is a sequence of nodes *)
(*   Lit(A)  one of the literal strings of A      (a|b|c), abc, abcs?      *)
(*   DotStar .*  (any run of characters other than a newline)            *)
(*   Name    ([a-z_]+), a capturing group                                  *)
(* A position p in 1..Len(s)+1 is the index of the next character to read. *)
(***************************************************************************)
Lit(A) == [k |-> "lit", alts |-> A]
DotStar == [k |-> "any", alts |-> {}]
Name == [k |-> "name", alts |-> {}]

\* positions reachable from a position of S by matching one node
Step(node, S, s) ==
    CASE node.k = "lit" ->
           UNION { { p + Len(a) : p \in { x \in S : StartsAt(s, x, a) } } : a \in node.alts }
      [] node.k = "any" ->
           LET newlines == { i \in 1..Len(s) : CharAt(s, i) = "\n" }
           IN  { e \in 1..(Len(s) + 1) :
                   \E p \in S : p <= e /\ \A i \in newlines : i < p \/ e <= i }
      [] node.k = "name" ->
           { e \in 1..(Len(s) + 1) :
               \E p \in S : p < e /\ \A i \in p..(e - 1) : CharAt(s, i) \in LowerChars \cup {"_"} }

\* positions where a match of nodes[i..] started at a position of S can end
RECURSIVE EndsFrom(_, _, _, _)
EndsFrom(nodes, i, S, s) ==
    IF i > Len(nodes) \/ S = {} THEN S
    ELSE EndsFrom(nodes, i + 1, Step(nodes[i], S, s), s)

\* re.search(pattern, s) is not None
re_search(nodes, s) == EndsFrom(nodes, 1, 1..(Len(s) + 1), s) # {}

\* the groups of the match re.search returns: the leftmost start, every
\* quantifier taking the longest run that lets the rest of the pattern match
RECURSIVE Captures(_, _, _, _)
Captures(nodes, i, p, s) ==
    IF i > Len(nodes) THEN <<>>
    ELSE LET e == SetMax({ c \in Step(nodes[i], {p}, s) :
                              EndsFrom(nodes, i + 1, {c}, s) # {} })
         IN  (IF nodes[i].k = "name" THEN <<SubSeq(s, p, e - 1)>> ELSE <<>>)
                \o Captures(nodes, i + 1, e, s)

match_groups(nodes, s) ==
    Captures(nodes, 1,
             SetMin({ p \in 1..(Len(s) + 1) : EndsFrom(nodes, 1, {p}, s) # {} }),
             s)

(***************************************************************************)
(* pattern_match: the ordered rule list and the first-match loop           *)
(***************************************************************************)
\* lambda m: f"full_lineage('{m.group(1)}', '{m.group(2)}', Lineage)"
lineage_template(m) == "full_lineage('" \o m[1] \o "', '" \o m[2] \o "', Lineage)"

Rule(re, template, msg) ==
    [re |-> re, callable |-> FALSE, template |-> template, message |-> msg]

patterns == <<
    Rule(<<Lit({"gold"}), DotStar, Lit({"without", "missing", "no"}), DotStar,
           Lit({"governance", "reviewer", "validator"})>>,
         "gold_without_governance(ViewName)", "Finding Gold datasets with governance gaps..."),
    Rule(<<Lit({"confidential", "pii", "sensitive"}), DotStar,
           Lit({"without", "missing", "no"}), DotStar, Lit({"steward"})>>,
         "confidential_data(ViewName, ColumnName), datapoint_without_steward(ViewName, ColumnName)", "Finding confidential data without stewards..."),
    Rule(<<Lit({"high"}), DotStar, Lit({"risk"})>>,
         "high_risk_data(ViewName, ColumnName, Reason)", "Finding high-risk data..."),
    Rule(<<Lit({"compliance", "governance"}), DotStar,
           Lit({"problem", "issue", "violation", "gap"})>>,
         "governance_violation(ViewName, ViolationType)", "Checking governance violations..."),
    Rule(<<Lit({"gold"}), DotStar, Lit({"dataset", "datasets"})>>,
         "datasets_in_layer('Gold', ViewName)", "Finding Gold datasets..."),
    Rule(<<Lit({"silver"}), DotStar, Lit({"dataset", "datasets"})>>,
         "datasets_in_layer('Silver', ViewName)", "Finding Silver datasets..."),
    Rule(<<Lit({"bronze"}), DotStar, Lit({"dataset", "datasets"})>>,
         "datasets_in_layer('Bronze', ViewName)", "Finding Bronze datasets..."),
    Rule(<<Lit({"subject area", "subject areas"})>>,
         "all_subject_areas(SubjectAreas)", "Finding subject areas..."),
    Rule(<<Lit({"data source", "data sources"})>>,
         "all_data_sources(DataSources)", "Finding data sources..."),
    Rule(<<Lit({"governance"}), DotStar, Lit({"violation", "violations"})>>,
         "governance_violation(ViewName, ViolationType)", "Checking governance..."),
    Rule(<<Lit({"without"}), DotStar, Lit({"reviewer"})>>,
         "dataset_without_reviewer(ViewName)", "Finding missing reviewers..."),
    Rule(<<Lit({"without"}), DotStar, Lit({"validator"})>>,
         "dataset_without_validator(ViewName)", "Finding missing validators..."),
    Rule(<<Lit({"without"}), DotStar, Lit({"steward"})>>,
         "datapoint_without_steward(ViewName, ColumnName)", "Finding missing stewards..."),
    Rule(<<Lit({"confidential"})>>,
         "confidential_data(ViewName, ColumnName)", "Finding confidential data..."),
    Rule(<<Lit({"pii"})>>,
         "pii_data(ViewName, ColumnName)", "Finding PII..."),
    [re |-> <<Lit({"lineage for "}), Name, Lit({"."}), Name>>, callable |-> TRUE,
     template |-> "lambda", message |-> "Tracing lineage..."]
>>


\* a faulty loop: the last rule that matches wins
RECURSIVE pattern_loop_last(_, _)
pattern_loop_last(i, q) ==
    IF i > Len(patterns) THEN <<None, "Try 'help' for examples">>
    ELSE IF pattern_loop_last(i + 1, q)[1] # None THEN pattern_loop_last(i + 1, q)
    ELSE IF re_search(patterns[i].re, q)
         THEN <<IF patterns[i].callable
                THEN lineage_template(match_groups(patterns[i].re, q))
                ELSE patterns[i].template,
                patterns[i].message>>
         ELSE <<None, "Try 'help' for examples">>

\* for pattern, query_template, message in patterns: ... return on the first match
RECURSIVE pattern_loop(_, _)
pattern_loop(i, q) ==
    IF i > Len(patterns) THEN <<None, "Try 'help' for examples">>
    ELSE IF re_search(patterns[i].re, q)
         THEN <<IF patterns[i].callable
                THEN lineage_template(match_groups(patterns[i].re, q))
                ELSE patterns[i].template,
                patterns[i].message>>
         ELSE pattern_loop(i + 1, q)

\* a faulty pattern_match: a question no rule matches gets a default query
pattern_match_default(qn) ==
    IF pattern_loop(1, strip(lower(qn)))[1] = None
    THEN <<"datasets_in_layer('Gold', ViewName)", "Finding Gold datasets...">>
    ELSE pattern_loop(1, strip(lower(qn)))

pattern_match(qn) == pattern_loop(1, strip(lower(qn)))

(***************************************************************************)
(* translate_with_ai.  The reply of POST /api/generate is an input:        *)
(*   exc       the exception requests.post raised (None: it returned)      *)
(*   status    response.status_code                                        *)
(*   json      "invalid"  response.json() raises                           *)
(*             "no_key"   an object without the key 'response'             *)
(*             "null"     {"response": null}                               *)
(*             "text"     {"response": <text>}                             *)
(* The messages are written without their emoji.                          *)
(* A TLA+ string cannot hold a backquote: "~" stands for it, so the code   *)
(* fence is written "~~~".                                                 *)
(***************************************************************************)
Reply(exc, status, json, text) ==
    [exc |-> exc, status |-> status, json |-> json, text |-> text]

\* lines 220-232: the candidate query cleaned out of the response text
clean_response(text) ==
    LET q1 == strip(text)
        q2 == remove(remove(q1, "~~~prolog"), "~~~")
        q3 == strip(remove(q2, "~~~"))
        q4 == IF contains(q3, "\n") THEN strip(first_line(q3)) ELSE q3
    IN  IF endswith(q4, ".") THEN SubSeq(q4, 1, Len(q4) - 1) ELSE q4

translate_with_ai(qn, reply) ==
    IF reply.exc # None THEN <<None, "AI error">>               \* bare except
    ELSE IF reply.status = 200
    THEN IF reply.json \in {"invalid", "null"}
         THEN <<None, "AI error">>      \* ValueError / AttributeError, caught
         ELSE LET query == clean_response(IF reply.json = "text" THEN reply.text ELSE "")
              IN  IF query # "" THEN <<query, "AI understood...">>
                  ELSE <<None, "AI translation failed">>
    ELSE <<None, "AI translation failed">>

\* a faulty test: the AI path is taken whenever AI mode was asked for
ai_enabled_unchecked == use_ai

\* the AI path is taken: self.use_ai and self.ollama_available
ai_enabled == use_ai /\ ollama_available

\* Python truth value of a str-or-None
Falsy(x) == x \in {None, ""}

\* a faulty translate_to_prolog: the AI path's outcome is final
translate_to_prolog_no_fallback(qn, reply) ==
    IF ai_enabled THEN translate_with_ai(qn, reply) ELSE pattern_match(qn)

translate_to_prolog(qn, reply) ==
    LET ai == translate_with_ai(qn, reply)
    IN  IF ai_enabled /\ ~Falsy(ai[1]) THEN ai ELSE pattern_match(qn)

(***************************************************************************)
(* The Prolog engine behind self.prolog (pyswip): the text of a goal is    *)
(* read as a conjunction of atoms and run against the loaded clauses.      *)
(* facts = [dataset |-> sequence of 12-tuples, datapoint |-> sequence of   *)
(* 18-tuples], in the argument order excel_to_prolog.py writes.            *)
(***************************************************************************)

AllAlnum(t) ==
    \A i \in 1..Len(t) :
        CharAt(t, i) \in UpperChars \cup LowerChars \cup DigitChars \cup {"_"}
IsAtomName(t) == t # "" /\ Head(t) \in LowerChars /\ AllAlnum(t)
IsVarName(t) == t # "" /\ Head(t) \in UpperChars \cup {"_"} /\ AllAlnum(t)
IsQuoted(t) ==
    /\ Len(t) >= 2 /\ Head(t) = "'" /\ CharAt(t, Len(t)) = "'"
    /\ \A i \in 2..(Len(t) - 1) : CharAt(t, i) # "'"

\* What reading a piece of text does to the reader.  A summary says, for a
\* piece entered outside quotes (o) and inside a quoted atom (i):
\*   q     the reader is inside a quoted atom at the end
\*   d     parentheses opened less parentheses closed
\*   min   the least value d took on the way
\*   seps  <<position, d there>> of each character sep met outside quotes
Effect(q, d, min, seps) == [q |-> q, d |-> d, min |-> min, seps |-> seps]

read_char(c, pos, sep) ==
    [o |-> IF c = "'" THEN Effect(TRUE, 0, 0, {})
           ELSE IF c = "(" THEN Effect(FALSE, 1, 0, {})
           ELSE IF c = ")" THEN Effect(FALSE, -1, -1, {})
           ELSE IF c = sep THEN Effect(FALSE, 0, 0, {<<pos, 0>>})
           ELSE Effect(FALSE, 0, 0, {}),
     i |-> IF c = "'" THEN Effect(FALSE, 0, 0, {}) ELSE Effect(TRUE, 0, 0, {})]

\* the effect l followed by the piece summarised by R
followed_by(l, R) ==
    LET r == IF l.q THEN R.i ELSE R.o
    IN  Effect(r.q, l.d + r.d,
               IF l.d + r.min < l.min THEN l.d + r.min ELSE l.min,
               l.seps \cup { <<x[1], x[2] + l.d>> : x \in r.seps })

RECURSIVE scan(_, _, _, _)
scan(s, lo, hi, sep) ==
    IF lo = hi THEN read_char(CharAt(s, lo), lo, sep)
    ELSE LET L == scan(s, lo, (lo + hi) \div 2, sep)
             R == scan(s, (lo + hi) \div 2 + 1, hi, sep)
         IN  [o |-> followed_by(L.o, R), i |-> followed_by(L.i, R)]

\* the whole of s read from the start: cuts are the positions of the
\* characters sep outside quotes and parentheses
read(s, sep) ==
    LET r == IF s = "" THEN Effect(FALSE, 0, 0, {}) ELSE scan(s, 1, Len(s), sep).o
    IN  [q |-> r.q, d |-> r.d, min |-> r.min,
         cuts |-> { x[1] : x \in { y \in r.seps : y[2] = 0 } }]

\* quotes are closed and parentheses are paired
balanced(r) == ~r.q /\ r.d = 0 /\ r.min >= 0

\* s cut at the positions of cuts
cut_at(s, cuts) ==
    LET n == Cardinality(cuts)
        cut(k) == CHOOSE c \in cuts : Cardinality({ d \in cuts : d < c }) = k - 1
    IN  [k \in 1..(n + 1) |->
            SubSeq(s, IF k = 1 THEN 1 ELSE cut(k - 1) + 1,
                      IF k = n + 1 THEN Len(s) ELSE cut(k) - 1)]

StripAll(ss) == [i \in 1..Len(ss) |-> strip(ss[i])]

NotCompound == [ok |-> FALSE, name |-> "", args |-> <<>>]

\* name(arg, ...) taken apart: an atom name, and its parenthesis closes at
\* the last character
Compound(t) ==
    IF contains(t, "(") /\ endswith(t, ")")
    THEN LET p == find(t, "(")
             inner == SubSeq(t, p + 1, Len(t) - 1)
             r == read(inner, ",")
         IN  IF IsAtomName(SubSeq(t, 1, p - 1)) /\ balanced(r)
             THEN [ok |-> TRUE, name |-> SubSeq(t, 1, p - 1),
                   args |-> StripAll(cut_at(inner, r.cuts))]
             ELSE NotCompound
    ELSE NotCompound

IsCompound(t) == Compound(t).ok

IsTerm(t) ==
    \/ IsVarName(t) \/ IsAtomName(t) \/ IsQuoted(t)
    \/ (t # "" /\ \A i \in 1..Len(t) : CharAt(t, i) \in DigitChars)
    \/ LET c == Compound(t)
       IN  c.ok /\ \A j \in 1..Len(c.args) :
             LET a == c.args[j]
             IN  IsVarName(a) \/ IsAtomName(a) \/ IsQuoted(a) \/ IsCompound(a)

\* a callable goal: an atom, or name(arg, ...) whose arguments are terms
IsGoal(g) ==
    \/ IsAtomName(g)
    \/ LET c == Compound(g)
       IN  c.ok /\ \A j \in 1..Len(c.args) : IsTerm(c.args[j])

Goal(g) ==
    IF IsAtomName(g) THEN [name |-> g, args |-> <<>>]
    ELSE [name |-> Compound(g).name, args |-> Compound(g).args]

\* the goals of a query text; ok = FALSE is a syntax error
parse_query(text) ==
    LET r == read(text, ",")
        gs == StripAll(cut_at(text, r.cuts))
    IN  IF balanced(r) /\ \A i \in 1..Len(gs) : IsGoal(gs[i])
        THEN [ok |-> TRUE, goals |-> [i \in 1..Len(gs) |-> Goal(gs[i])]]
        ELSE [ok |-> FALSE, goals |-> <<>>]

(***************************************************************************)
(* The fact files, as excel_to_prolog.py writes them: one tuple per fact,  *)
(* an absent value written as the atom null.                               *)
(***************************************************************************)
NULL == "null"

DATASET_FACTS == <<
    <<"V0001", "bronze_customer_data", "Bronze", "Bronze Customer View", "Customer",
      "Customer Data", "CRM Platform", "CRM001", "Alice Johnson", NULL,
      "Data Engineering", "Bob Smith">>,
    <<"V0002", "silver_customer_data", "Silver", "Silver Customer View", "Customer",
      "Customer Data", "CRM Platform", "CRM001", "Alice Johnson", "Carol Williams",
      "Analytics Team", "Bob Smith">>,
    <<"V0003", "gold_customer_data", "Gold", "Gold Customer View", "Customer",
      "Customer Data", "CRM Platform", "CRM001", NULL, "Carol Williams",
      "IT Department", NULL>>
>>

DATAPOINT_FACTS == <<
    <<"DP00001", "Customer", "V0001", "bronze_customer_data", "email", "Email Address",
      "Development", "Active", "string", "Email Address for Customer domain",
      NULL, NULL, NULL, NULL, "Sales Team", "Restricted",
      "Contains personally identifiable information (PII)", "No">>,
    <<"DP00002", "Customer", "V0002", "silver_customer_data", "email", "Email Address",
      "Production", "Active", "string", "Email Address for Customer domain",
      NULL, "bronze_customer_data", "email", "Eve Martinez", "Sales Team", "Confidential",
      "Contains personally identifiable information (PII)", "Yes">>,
    <<"DP00003", "Customer", "V0003", "gold_customer_data", "email", "Email Address",
      "Production", "Active", "string", "Email Address for Customer domain",
      NULL, "silver_customer_data", "email", NULL, "Sales Team", "Confidential",
      "Contains personally identifiable information (PII)", "Yes">>
>>

\* dataset(ViewID, ViewName, DataLayer, Name, SubjectArea, SubjectAreaSubCategory,
\*         DataSource, DataSourceID, Reviewer, TechnicalDesignReviewer, Processor, Validator)
\* the positions of the arguments the rules read
DS == [view_name |-> 2, data_layer |-> 3, subject_area |-> 5, data_source |-> 7,
       reviewer |-> 9, technical_design_reviewer |-> 10, validator |-> 12]

\* datapoint(DatapointID, SubjectArea, ViewID, ViewName, ColumnName, ColumnLabel,
\*           EnvironmentStatus, DbState, DataPointClass, Description, SourceDatapointID,
\*           SourceViewIDName, SourceViewIDColumnName, DataSteward, DataOwner,
\*           SensitivityLabel, SensitivityLabelRationale, CriticalDataElementIndicator)
DP == [view_name |-> 4, column_name |-> 5, environment_status |-> 7,
       source_view_name |-> 12, source_column_name |-> 13, data_steward |-> 14,
       sensitivity_label |-> 16, critical |-> 18]

(***************************************************************************)
(* The rule base metadata_kb.pl: every predicate is a relation computed    *)
(* from the facts, its rows in fact order.                                 *)
(***************************************************************************)
Absent(v) == v \in {NULL, ""}

MapSeq(F(_), ss) == [i \in 1..Len(ss) |-> F(ss[i])]

RECURSIVE Flatten(_)
Flatten(sss) == IF sss = <<>> THEN <<>> ELSE Head(sss) \o Flatten(Tail(sss))

\* ss without the repetitions of an earlier element
Distinct(ss) ==
    Flatten([i \in 1..Len(ss) |-> IF \E j \in 1..(i - 1) : ss[j] = ss[i]
                                  THEN <<>> ELSE <<ss[i]>>])

View1(ds) == MapSeq(LAMBDA d : <<d[DS.view_name]>>, ds)
ViewCol(dps) == MapSeq(LAMBDA d : <<d[DP.view_name], d[DP.column_name]>>, dps)

has_governance_gap(d) ==
    \/ Absent(d[DS.reviewer]) \/ Absent(d[DS.validator])
    \/ Absent(d[DS.technical_design_reviewer])
is_pii(d) == d[DP.sensitivity_label] \in {"Confidential", "Restricted"}
is_critical(d) == d[DP.critical] \in {"Yes", "true"}
is_unstewarded_production(d) ==
    d[DP.environment_status] = "Production" /\ Absent(d[DP.data_steward])
has_source(d) == ~Absent(d[DP.source_view_name]) /\ ~Absent(d[DP.source_column_name])

datasets_in_layer(fs) ==
    MapSeq(LAMBDA d : <<d[DS.data_layer], d[DS.view_name]>>, fs.dataset)
datasets_in_subject_area(fs) ==
    MapSeq(LAMBDA d : <<d[DS.subject_area], d[DS.view_name]>>, fs.dataset)
datasets_from_source(fs) ==
    MapSeq(LAMBDA d : <<d[DS.data_source], d[DS.view_name]>>, fs.dataset)
datasets_filtered(fs) ==
    MapSeq(LAMBDA d : <<d[DS.data_layer], d[DS.subject_area], d[DS.view_name]>>, fs.dataset)
dataset_without_reviewer(fs) ==
    View1(SelectSeq(fs.dataset, LAMBDA d : Absent(d[DS.reviewer])))
dataset_without_validator(fs) ==
    View1(SelectSeq(fs.dataset, LAMBDA d : Absent(d[DS.validator])))
dataset_with_governance_gap(fs) ==
    View1(SelectSeq(fs.dataset, has_governance_gap))
gold_without_governance(fs) ==
    View1(SelectSeq(fs.dataset,
                    LAMBDA d : d[DS.data_layer] = "Gold" /\ has_governance_gap(d)))
datapoint_without_steward(fs) ==
    ViewCol(SelectSeq(fs.datapoint, LAMBDA d : Absent(d[DP.data_steward])))

Tagged(rows, kind) == MapSeq(LAMBDA r : <<r[1], kind>>, rows)

governance_violation(fs) ==
    Tagged(dataset_without_reviewer(fs), "MissingReviewer")
      \o Tagged(dataset_without_validator(fs), "MissingValidator")
      \o Tagged(View1(SelectSeq(fs.dataset,
                                LAMBDA d : Absent(d[DS.technical_design_reviewer]))),
                "MissingTechnicalReviewer")
      \o Tagged(Distinct(MapSeq(LAMBDA r : <<r[1]>>, datapoint_without_steward(fs))),
                "MissingSteward")

pii_data(fs) == ViewCol(SelectSeq(fs.datapoint, is_pii))
confidential_data(fs) ==
    ViewCol(SelectSeq(fs.datapoint, LAMBDA d : d[DP.sensitivity_label] = "Confidential"))
critical_data(fs) == ViewCol(SelectSeq(fs.datapoint, is_critical))

high_risk_data(fs) ==
    Flatten(MapSeq(
        LAMBDA d :
            (IF is_pii(d)
             THEN <<<<d[DP.view_name], d[DP.column_name], "SensitiveData">>>> ELSE <<>>)
         \o (IF is_critical(d)
             THEN <<<<d[DP.view_name], d[DP.column_name], "CriticalData">>>> ELSE <<>>)
         \o (IF is_unstewarded_production(d)
             THEN <<<<d[DP.view_name], d[DP.column_name], "ProductionWithoutSteward">>>>
             ELSE <<>>),
        fs.datapoint))

production_pii_without_steward(fs) ==
    ViewCol(SelectSeq(fs.datapoint,
                      LAMBDA d : is_pii(d) /\ is_unstewarded_production(d)))

immediate_source(fs) ==
    MapSeq(LAMBDA d : <<d[DP.view_name], d[DP.column_name],
                        d[DP.source_view_name], d[DP.source_column_name]>>,
           SelectSeq(fs.datapoint, has_source))

\* the lineage edges leaving node n = <<view, column>>
sources_of(fs, n) ==
    SelectSeq(immediate_source(fs), LAMBDA e : e[1] = n[1] /\ e[2] = n[2])

\* a walk that stops at a node met again without reporting it
RECURSIVE lineage_walk_silent(_, _, _)
lineage_walk_silent(fs, n, visited) ==
    IF n \in visited THEN [chain |-> <<>>, cycle |-> FALSE]
    ELSE IF sources_of(fs, n) = <<>> THEN [chain |-> <<n>>, cycle |-> FALSE]
    ELSE LET e == sources_of(fs, n)[1]
             rest == lineage_walk_silent(fs, <<e[3], e[4]>>, visited \cup {n})
         IN  [chain |-> <<n>> \o rest.chain, cycle |-> rest.cycle]

\* follows immediate_source from n, keeping the visited set: a node met again
\* ends the chain with the LineageCycle condition
RECURSIVE lineage_walk(_, _, _)
lineage_walk(fs, n, visited) ==
    IF n \in visited THEN [chain |-> <<>>, cycle |-> TRUE]
    ELSE IF sources_of(fs, n) = <<>> THEN [chain |-> <<n>>, cycle |-> FALSE]
    ELSE LET e == sources_of(fs, n)[1]
             rest == lineage_walk(fs, <<e[3], e[4]>>, visited \cup {n})
         IN  [chain |-> <<n>> \o rest.chain, cycle |-> rest.cycle]

RECURSIVE join_str(_, _)
join_str(ss, sep) ==
    IF ss = <<>> THEN ""
    ELSE IF Len(ss) = 1 THEN ss[1]
    ELSE ss[1] \o sep \o join_str(Tail(ss), sep)

\* a list value as pyswip hands it back, written out
list_text(ss) == "[" \o join_str(ss, ", ") \o "]"

lineage_text(w) ==
    list_text(MapSeq(LAMBDA n : n[1] \o "." \o n[2], w.chain)
                \o (IF w.cycle THEN <<"LineageCycle">> ELSE <<>>))

full_lineage(fs) ==
    MapSeq(LAMBDA n : <<n[1], n[2], lineage_text(lineage_walk(fs, n, {}))>>,
           ViewCol(fs.datapoint))

\* every datapoint whose chain passes through the source node
downstream_impact(fs) ==
    Flatten(MapSeq(
        LAMBDA n :
            MapSeq(LAMBDA m : <<m[1], m[2], n[1], n[2]>>,
                   Tail(lineage_walk(fs, n, {}).chain)),
        ViewCol(fs.datapoint)))

subject_areas(fs) == Distinct(MapSeq(LAMBDA d : d[DS.subject_area], fs.dataset))
data_sources(fs) == Distinct(MapSeq(LAMBDA d : d[DS.data_source], fs.dataset))
all_subject_areas(fs) == <<<<list_text(subject_areas(fs))>>>>
all_data_sources(fs) == <<<<list_text(data_sources(fs))>>>>

is_complete(fs, area) ==
    \A layer \in {"Bronze", "Silver", "Gold"} :
        \E i \in 1..Len(fs.dataset) :
            fs.dataset[i][DS.subject_area] = area /\ fs.dataset[i][DS.data_layer] = layer
complete_pipeline(fs) ==
    MapSeq(LAMBDA a : <<a>>, SelectSeq(subject_areas(fs), LAMBDA a : is_complete(fs, a)))
incomplete_pipeline(fs) ==
    MapSeq(LAMBDA a : <<a>>, SelectSeq(subject_areas(fs), LAMBDA a : ~is_complete(fs, a)))

\* the predicates metadata_kb.pl defines, name and arity
KB == {
    <<"datasets_in_layer", 2>>, <<"datasets_in_subject_area", 2>>,
    <<"datasets_from_source", 2>>, <<"datasets_filtered", 3>>,
    <<"dataset_without_reviewer", 1>>, <<"dataset_without_validator", 1>>,
    <<"dataset_with_governance_gap", 1>>, <<"gold_without_governance", 1>>,
    <<"datapoint_without_steward", 2>>, <<"governance_violation", 2>>,
    <<"confidential_data", 2>>, <<"pii_data", 2>>, <<"critical_data", 2>>,
    <<"high_risk_data", 3>>, <<"production_pii_without_steward", 2>>,
    <<"immediate_source", 4>>, <<"full_lineage", 3>>, <<"downstream_impact", 4>>,
    <<"complete_pipeline", 1>>, <<"incomplete_pipeline", 1>>,
    <<"all_subject_areas", 1>>, <<"all_data_sources", 1>> }

relation(name, fs) ==
    CASE name = "datasets_in_layer" -> datasets_in_layer(fs)
      [] name = "datasets_in_subject_area" -> datasets_in_subject_area(fs)
      [] name = "datasets_from_source" -> datasets_from_source(fs)
      [] name = "datasets_filtered" -> datasets_filtered(fs)
      [] name = "dataset_without_reviewer" -> dataset_without_reviewer(fs)
      [] name = "dataset_without_validator" -> dataset_without_validator(fs)
      [] name = "dataset_with_governance_gap" -> dataset_with_governance_gap(fs)
      [] name = "gold_without_governance" -> gold_without_governance(fs)
      [] name = "datapoint_without_steward" -> datapoint_without_steward(fs)
      [] name = "governance_violation" -> governance_violation(fs)
      [] name = "confidential_data" -> confidential_data(fs)
      [] name = "pii_data" -> pii_data(fs)
      [] name = "critical_data" -> critical_data(fs)
      [] name = "high_risk_data" -> high_risk_data(fs)
      [] name = "production_pii_without_steward" -> production_pii_without_steward(fs)
      [] name = "immediate_source" -> immediate_source(fs)
      [] name = "full_lineage" -> full_lineage(fs)
      [] name = "downstream_impact" -> downstream_impact(fs)
      [] name = "complete_pipeline" -> complete_pipeline(fs)
      [] name = "incomplete_pipeline" -> incomplete_pipeline(fs)
      [] name = "all_subject_areas" -> all_subject_areas(fs)
      [] name = "all_data_sources" -> all_data_sources(fs)

(***************************************************************************)
(* Prolog.query(text): the solutions of the goal, one binding (variable    *)
(* name -> value) per solution, or an exception.  Goals run left to right; *)
(* a goal is only called when an earlier solution reaches it.              *)
(***************************************************************************)
\* a binding is a dict: <<name, value>> pairs in insertion order
has_key(row, k) == \E i \in 1..Len(row) : row[i][1] = k
value_of(row, k) == row[CHOOSE i \in 1..Len(row) : row[i][1] = k][2]

literal(a) == IF IsQuoted(a) THEN SubSeq(a, 2, Len(a) - 1) ELSE a

\* the binding row extended so that args[j..] equal tuple[j..]
RECURSIVE unify(_, _, _, _)
unify(args, tuple, j, row) ==
    IF j > Len(args) THEN [ok |-> TRUE, row |-> row]
    ELSE LET a == args[j]
         IN  IF a = "_" THEN unify(args, tuple, j + 1, row)
             ELSE IF IsVarName(a)
             THEN IF has_key(row, a)
                  THEN IF value_of(row, a) = tuple[j] THEN unify(args, tuple, j + 1, row)
                       ELSE [ok |-> FALSE, row |-> row]
                  ELSE unify(args, tuple, j + 1, Append(row, <<a, tuple[j]>>))
             ELSE IF ~IsCompound(a) /\ literal(a) = tuple[j]
                  THEN unify(args, tuple, j + 1, row)
                  ELSE [ok |-> FALSE, row |-> row]

join(rows, g, rel) ==
    Flatten(MapSeq(
        LAMBDA row :
            Flatten(MapSeq(LAMBDA t : IF unify(g.args, t, 1, row).ok
                                      THEN <<unify(g.args, t, 1, row).row>> ELSE <<>>,
                           rel)),
        rows))

FACT_FILES == {"dataset_facts.pl", "datapoint_facts.pl"}

\* assertz(Clause) adds a clause of a predicate no file defines (the clauses
\* of a consulted file are static: asserting to them is a permission error)
IsAssertz(g) ==
    /\ g.name = "assertz" /\ Len(g.args) = 1
    /\ (IsAtomName(g.args[1]) \/ IsCompound(g.args[1]))
    /\ LET h == IF IsAtomName(g.args[1]) THEN g.args[1] ELSE Compound(g.args[1]).name
       IN  h \notin {"dataset", "datapoint"} /\ \A k \in KB : k[1] # h

\* unload_file(File) removes the clauses loaded from File
IsUnloadFile(g) ==
    g.name = "unload_file" /\ Len(g.args) = 1 /\ literal(g.args[1]) \in FACT_FILES

unload_file(fs, file) ==
    IF file = "dataset_facts.pl" THEN [fs EXCEPT !.dataset = <<>>]
    ELSE [fs EXCEPT !.datapoint = <<>>]

RECURSIVE exec_goals(_, _, _, _)
exec_goals(goals, i, rows, fs) ==
    IF i > Len(goals) \/ rows = <<>>
    THEN [exc |-> FALSE, rows |-> rows, facts |-> fs]
    ELSE LET g == goals[i]
         IN  IF <<g.name, Len(g.args)>> \in KB
             THEN exec_goals(goals, i + 1, join(rows, g, relation(g.name, fs)), fs)
             ELSE IF IsAssertz(g)
             THEN exec_goals(goals, i + 1, rows,
                             [fs EXCEPT !.asserted = @ \o MapSeq(LAMBDA r : g.args[1], rows)])
             ELSE IF IsUnloadFile(g)
             THEN exec_goals(goals, i + 1, rows, unload_file(fs, literal(g.args[1])))
             ELSE [exc |-> TRUE, rows |-> rows, facts |-> fs]   \* existence_error

\* pyswip leaves the variables named _... out of a solution
visible(row) == SelectSeq(row, LAMBDA kv : Head(kv[1]) # "_")

prolog_query_run(text, fs) ==
    LET p == parse_query(text)
    IN  IF ~p.ok
        THEN [exc |-> TRUE, rows |-> <<>>, facts |-> fs]           \* syntax error
        ELSE LET r == exec_goals(p.goals, 1, <<<<>>>>, fs)
             IN  [exc |-> r.exc, rows |-> MapSeq(visible, r.rows), facts |-> r.facts]

\* a faulty query(): the rows found before the error are handed back
query_keeps_rows(text, fs) ==
    LET r == prolog_query_run(text, fs)
    IN  [results |-> r.rows, facts |-> r.facts,
         printed |-> IF r.exc THEN <<"Query error">> ELSE <<>>]

\* query(): both branches of the comma test run the same call; every
\* exception is caught, reported, and turned into the empty list
query(text, fs) ==
    LET r == prolog_query_run(text, fs)
    IN  IF r.exc
        THEN [results |-> <<>>, facts |-> r.facts, printed |-> <<"Query error">>]
        ELSE [results |-> r.rows, facts |-> r.facts, printed |-> <<>>]

(***************************************************************************)
(* format_results                                                          *)
(***************************************************************************)
DISPLAY_CAP == 5

\* str(n)
RECURSIVE itoa(_)
itoa(n) ==
    IF n < 10 THEN CharAt("0123456789", n + 1)
    ELSE itoa(n \div 10) \o CharAt("0123456789", (n % 10) + 1)

\* f"{r.get(k)}": the value, or the text None
get(row, k) == IF has_key(row, k) THEN value_of(row, k) ELSE "None"

\* f"{r}"
dict_repr(row) ==
    "{" \o join_str(MapSeq(LAMBDA kv : "'" \o kv[1] \o "': '" \o kv[2] \o "'", row), ", ")
        \o "}"

Numbered(res, Text(_)) ==
    [i \in 1..Len(res) |-> "  " \o itoa(i) \o ". " \o Text(res[i])]

\* the violations dict: the types in order of first appearance, and under
\* each the ViewName of its rows, the first DISPLAY_CAP of them shown
violation_lines(res) ==
    Flatten(MapSeq(
        LAMBDA vtype :
            <<"\n  " \o vtype \o ":">>
              \o LET views == MapSeq(LAMBDA r : get(r, "ViewName"),
                                     SelectSeq(res, LAMBDA r : get(r, "ViolationType") = vtype))
                 IN  MapSeq(LAMBDA v : "    - " \o v,
                            SubSeq(views, 1, IF Len(views) < DISPLAY_CAP
                                             THEN Len(views) ELSE DISPLAY_CAP)),
        Distinct(MapSeq(LAMBDA r : get(r, "ViolationType"), res))))

NO_RESULTS == "No results found."

\* a header that does not carry the count
format_header_uncounted(res) == "\nFound results:\n"

format_header(res) == "\nFound " \o itoa(Len(res)) \o " results:\n"

format_results(res, q) ==
    IF res = <<>> THEN NO_RESULTS
    ELSE join_str(
           <<format_header(res)>>
             \o (IF has_key(res[1], "ViewName")
                 THEN Numbered(res, LAMBDA r : get(r, "ViewName"))
                 ELSE IF has_key(res[1], "ColumnName")
                 THEN Numbered(res, LAMBDA r : get(r, "ViewName") \o "." \o get(r, "ColumnName"))
                 ELSE IF has_key(res[1], "ViolationType")
                 THEN violation_lines(res)
                 ELSE Numbered(res, dict_repr)),
           "\n")

(***************************************************************************)
(* Inputs: what the user types, what the command line holds, and what the  *)
(* Ollama server answers.                                                  *)
(***************************************************************************)
MaxTurns == 2
MaxPhrases == 3

Lines == {
    "Show me all Gold datasets",
    "gold datasets without governance",
    "Check governance violations",
    "Find confidential data without stewards",
    "Trace lineage for gold_customer_data.email",
    "Trace lineage for gold_customer_data.email in the Gold dataset",
    "What are all the subject areas?",
    "What is the weather?",
    "help", " EXIT ", "Quit", "q", "", "   " }

ArgQuestions == {
    "Show Gold datasets", "Check governance violations", "What is the weather?",
    "help", "exit", "" }

Input(kind, text) == [kind |-> kind, text |-> text]

Inputs ==
    { Input("line", l) : l \in Lines }
      \cup { Input("EOFError", ""), Input("KeyboardInterrupt", "") }

NoReply == Reply(None, 0, "none", "")

ReplyTexts == {
    "gold_without_governance(ViewName)",
    "~~~prolog\npii_data(ViewName, ColumnName).\n~~~",
    "Here is the query:\npii_data(ViewName, ColumnName)",
    "gold_without_governance(dataset_without_reviewer(ViewName))",
    "dataset_without_governance(ViewName)",
    "datasets_in_layer(ViewName)",
    "assertz(note(x))",
    "unload_file('dataset_facts.pl')",
    "", " . ", "~~~\n~~~" }

Replies ==
    { Reply("ConnectionError", 0, "none", ""), Reply("Timeout", 0, "none", ""),
      Reply(None, 500, "none", ""), Reply(None, 200, "invalid", ""),
      Reply(None, 200, "null", ""), Reply(None, 200, "no_key", "") }
      \cup { Reply(None, 200, "text", t) : t \in ReplyTexts }

Probe(exc, status, models) == [exc |-> exc, status |-> status, models |-> models]

Probes ==
    { Probe("ConnectionError", 0, <<>>), Probe(None, 500, <<>>),
      Probe(None, 200, <<>>), Probe(None, 200, <<"llama3.2:latest">>) }

\* _init_ollama: the value it leaves in self.ollama_available
init_ollama(probe) ==
    /\ probe.exc = None
    /\ probe.status = 200
    /\ probe.models # <<>>

\* the questions made of at most n of these phrases
Phrases == <<"Gold datasets", "without", "governance", "pii", "steward", "know">>

Questions(n) ==
    UNION { { join_str([i \in 1..k |-> Phrases[f[i]]], " ") :
                f \in [1..k -> 1..Len(Phrases)] } : k \in 0..n }

(***************************************************************************)
(* The program: main() builds the interface, then answers the question of  *)
(* the command line or runs the interactive loop.  pc is the position:     *)
(*   start      before NaturalLanguageInterface(use_ai=args.ai)            *)
(*   prompt     at input() in interactive_mode                             *)
(*   translate  before translate_to_prolog(question)                       *)
(*   execute    before self.query(prolog_query)                            *)
(*   format     before format_results(results, prolog_query)               *)
(*   exited     the process has ended, with exit_status                    *)
(* calls, printed and ai_requests record what handling the current input   *)
(* has invoked, printed and sent so far.                                   *)
(***************************************************************************)
interactive == arg_question = None

\* the clauses in the engine once __init__ has consulted the files present
loaded_facts ==
    [dataset |-> IF ds_exists THEN DATASET_FACTS ELSE <<>>,
     datapoint |-> IF dp_exists THEN DATAPOINT_FACTS ELSE <<>>,
     asserted |-> <<>>]

Init ==
    /\ pc = "start"
    /\ kb_exists \in BOOLEAN /\ ds_exists \in BOOLEAN /\ dp_exists \in BOOLEAN
    /\ use_ai \in BOOLEAN
    /\ arg_question \in {None} \cup ArgQuestions
    /\ ollama_available = FALSE
    /\ facts = [dataset |-> <<>>, datapoint |-> <<>>, asserted |-> <<>>]
    /\ question = None /\ prolog_query = None /\ message = None
    /\ results = <<>> /\ formatted = None
    /\ printed = <<>> /\ calls = {} /\ ai_reply = NoReply /\ ai_requests = 0
    /\ exit_status = None
    /\ turn = 0
    /\ excel = [Dataset |-> <<>>, DataPoint |-> <<>>]
    /\ files = [dataset_facts |-> None, datapoint_facts |-> None]
    /\ counts = <<>>
    /\ rng = 0

exit(status) == pc' = "exited" /\ exit_status' = status

\* a faulty test of the exit keywords: the case of the input counts
is_exit_case_sensitive(q) == q \in {"exit", "quit", "q"}

is_exit(q) == lower(q) \in {"exit", "quit", "q"}
is_help(q) == lower(q) = "help"

\* __init__ and the branch of main() on args.question
Startup ==
    /\ pc = "start"
    /\ \E probe \in (IF kb_exists /\ use_ai THEN Probes ELSE {Probe(None, 0, <<>>)}) :
         IF ~kb_exists
         THEN /\ exit(1)
              /\ printed' = <<"Knowledge base not found">>
              /\ UNCHANGED <<facts, ollama_available, question>>
         ELSE /\ facts' = loaded_facts
              /\ ollama_available' = (use_ai /\ init_ollama(probe))
              /\ printed' = <<"Knowledge base loaded">>
              /\ IF interactive
                 THEN pc' = "prompt" /\ UNCHANGED question
                 ELSE pc' = "translate" /\ question' = arg_question
              /\ UNCHANGED exit_status
    /\ UNCHANGED <<rng, excel, files, counts, kb_exists, ds_exists, dp_exists, use_ai,
                   arg_question, prolog_query,
                   message, results, formatted, calls, ai_reply, ai_requests, turn>>

\* one pass of the while loop up to translate_to_prolog: input(), strip,
\* the empty line and the keywords
Read ==
    /\ pc = "prompt"
    /\ turn < MaxTurns
    /\ turn' = turn + 1
    /\ prolog_query' = None /\ message' = None /\ results' = <<>> /\ formatted' = None
    /\ ai_reply' = NoReply /\ ai_requests' = 0
    /\ \E inp \in Inputs :
         \E q \in {strip(inp.text)} :
             CASE inp.kind = "KeyboardInterrupt" ->
                    /\ exit(0) /\ printed' = <<"Goodbye">>
                    /\ calls' = {} /\ question' = None
               [] inp.kind = "EOFError" ->
                    /\ pc' = "prompt" /\ printed' = <<"Error">>
                    /\ calls' = {} /\ question' = None
                    /\ UNCHANGED exit_status
               [] OTHER ->
                    /\ question' = q
                    /\ IF q = ""
                       THEN /\ pc' = "prompt" /\ printed' = <<>> /\ calls' = {}
                            /\ UNCHANGED exit_status
                       ELSE IF is_exit(q)
                       THEN exit(0) /\ printed' = <<"Goodbye">> /\ calls' = {}
                       ELSE IF is_help(q)
                       THEN /\ pc' = "prompt" /\ printed' = <<"help">>
                            /\ calls' = {"show_help"}
                            /\ UNCHANGED exit_status
                       ELSE /\ pc' = "translate" /\ printed' = <<>> /\ calls' = {}
                            /\ UNCHANGED exit_status
    /\ UNCHANGED <<rng, excel, files, counts, kb_exists, ds_exists, dp_exists, use_ai,
                   arg_question,
                   ollama_available, facts>>

\* translate_to_prolog(question) and the test of its result, in
\* interactive_mode and in main alike but for what follows a missing query
Translate ==
    /\ pc = "translate"
    /\ \E reply \in (IF ai_enabled THEN Replies ELSE {NoReply}) :
         \E r \in {translate_to_prolog(question, reply)} :
             /\ ai_reply' = reply
             /\ ai_requests' = IF ai_enabled THEN ai_requests + 1 ELSE ai_requests
             /\ prolog_query' = r[1]
             /\ message' = r[2]
             /\ calls' = calls \cup {"translate_to_prolog"}
                           \cup (IF ai_enabled THEN {"translate_with_ai"} ELSE {})
                           \cup (IF ai_enabled /\ ~Falsy(translate_with_ai(question, reply)[1])
                                 THEN {} ELSE {"pattern_match"})
             /\ IF Falsy(r[1])
                THEN /\ printed' = Append(printed, r[2])
                     /\ IF interactive
                        THEN pc' = "prompt" /\ UNCHANGED exit_status
                        ELSE exit(1)
                ELSE /\ printed' = printed \o <<r[2], "Query: " \o r[1]>>
                     /\ pc' = "execute"
                     /\ UNCHANGED exit_status
    /\ UNCHANGED <<rng, excel, files, counts, kb_exists, ds_exists, dp_exists, use_ai,
                   arg_question,
                   ollama_available, facts, question, results, formatted, turn>>

\* results = self.query(prolog_query)
Execute ==
    /\ pc = "execute"
    /\ \E r \in {query(prolog_query, facts)} :
           /\ results' = r.results
           /\ facts' = r.facts
           /\ printed' = printed \o r.printed
    /\ calls' = calls \cup {"query"}
    /\ pc' = "format"
    /\ UNCHANGED <<rng, excel, files, counts, kb_exists, ds_exists, dp_exists, use_ai,
                   arg_question,
                   ollama_available, question, prolog_query, message, formatted,
                   ai_reply, ai_requests, exit_status, turn>>

\* print(self.format_results(results, prolog_query)); then the loop goes
\* round, and main() returns
Format ==
    /\ pc = "format"
    /\ formatted' = format_results(results, prolog_query)
    /\ printed' = Append(printed, formatted')
    /\ calls' = calls \cup {"format_results"}
    /\ IF interactive
       THEN pc' = "prompt" /\ UNCHANGED exit_status
       ELSE exit(0)
    /\ UNCHANGED <<rng, excel, files, counts, kb_exists, ds_exists, dp_exists, use_ai,
                   arg_question,
                   ollama_available, facts, question, prolog_query, message, results,
                   ai_reply, ai_requests, turn>>

Next == Startup \/ Read \/ Translate \/ Execute \/ Format

Spec == Init /\ [][Next]_vars

\* translate_to_prolog on its own, over every question of at most MaxPhrases
\* phrases, with and without the AI path
InitTranslate ==
    /\ pc = "translate"
    /\ kb_exists = TRUE /\ ds_exists = TRUE /\ dp_exists = TRUE
    /\ use_ai \in BOOLEAN
    /\ ollama_available = use_ai
    /\ arg_question = None
    /\ facts = loaded_facts
    /\ question \in Questions(MaxPhrases)
    /\ prolog_query = None /\ message = None
    /\ results = <<>> /\ formatted = None
    /\ printed = <<>> /\ calls = {} /\ ai_reply = NoReply /\ ai_requests = 0
    /\ exit_status = None
    /\ turn = 1
    /\ excel = [Dataset |-> <<>>, DataPoint |-> <<>>]
    /\ files = [dataset_facts |-> None, datapoint_facts |-> None]
    /\ counts = <<>>
    /\ rng = 0

SpecTranslate == InitTranslate /\ [][Translate]_vars

(***************************************************************************)
(* Properties                                                              *)
(***************************************************************************)
printed_has(m) == \E i \in 1..Len(printed) : printed[i] = m

\* the question as pattern_match sees it
seen(qn) == strip(lower(qn))

\* the rules that match q
matching_rules(q) == { i \in 1..Len(patterns) : re_search(patterns[i].re, q) }

\* what rule i returns for q
rule_outcome(i, q) ==
    <<IF patterns[i].callable
      THEN lineage_template(match_groups(patterns[i].re, q))
      ELSE patterns[i].template,
      patterns[i].message>>

\* the two rules for gold, as pattern_match writes them
GOLD_COMPOUND ==
    <<Lit({"gold"}), DotStar, Lit({"without", "missing", "no"}), DotStar,
      Lit({"governance", "reviewer", "validator"})>>
GOLD_SIMPLE == <<Lit({"gold"}), DotStar, Lit({"dataset", "datasets"})>>

\* C1: when pattern_match answers, its outcome is that of the first rule, in
\* the order of the list, whose pattern matches the lower-cased question; a
\* question matching both the compound rule for gold and the simple one
\* gets gold_without_governance(ViewName), not datasets_in_layer('Gold', ViewName).
C1_FirstMatchWins ==
    "pattern_match" \in calls =>
        \A q \in {seen(question)} :
            /\ \A m \in {matching_rules(q)} :
                 m # {} => <<prolog_query, message>> = rule_outcome(SetMin(m), q)
            /\ (re_search(GOLD_COMPOUND, q) /\ re_search(GOLD_SIMPLE, q))
                 => prolog_query = "gold_without_governance(ViewName)"

C1_Witness ==
    /\ "pattern_match" \in calls
    /\ question = "Gold datasets without governance"
    /\ re_search(GOLD_SIMPLE, seen(question))
    /\ prolog_query = "gold_without_governance(ViewName)"

\* the AI path produced the query: the call returned 200 with a response
\* text, and the query is that text cleaned
produced_by_ai ==
    /\ ai_enabled
    /\ ai_reply.exc = None /\ ai_reply.status = 200 /\ ai_reply.json = "text"
    /\ prolog_query = clean_response(ai_reply.text)

\* C2: when no rule matches, pattern_match returns no query and the guidance
\* message, never a default query; translate_to_prolog returns a query only
\* if the AI path produced it or some rule matches the question.
C2_NoMatchNoQuery ==
    "translate_to_prolog" \in calls =>
        \A m \in {matching_rules(seen(question))} :
            /\ ("pattern_match" \in calls /\ m = {})
                 => (prolog_query = None /\ message = "Try 'help' for examples")
            /\ ~Falsy(prolog_query) => (produced_by_ai \/ m # {})

C2_Witness ==
    /\ "pattern_match" \in calls
    /\ question = "without governance"
    /\ prolog_query = None
    /\ message = "Try 'help' for examples"

\* the AI path failed: the call raised, the status is not 200, the body is
\* not a response text, or the text holds no query once cleaned
external_path_failed(reply) ==
    \/ reply.exc # None
    \/ reply.status # 200
    \/ reply.json # "text"
    \/ clean_response(reply.text) = ""

well_formed(text) ==
    LET p == parse_query(text)
    IN  /\ p.ok
        /\ \A i \in 1..Len(p.goals) :
             /\ <<p.goals[i].name, Len(p.goals[i].args)>> \in KB
             /\ \A j \in 1..Len(p.goals[i].args) : ~IsCompound(p.goals[i].args[j])

\* C4: a suggestion of the AI path is the translation result, and is
\* executed, only if it is a well-formed query; for a suggestion that is
\* not, the result is that of pattern_match.
C4_ValidatedBeforeUse ==
    ("translate_to_prolog" \in calls /\ ai_enabled /\ ~external_path_failed(ai_reply))
      => IF well_formed(clean_response(ai_reply.text))
         THEN TRUE
         ELSE <<prolog_query, message>> = pattern_match(question)

\* C5: once startup has loaded the fact files, whatever questions are
\* handled, the clauses in the engine are those startup loaded.
C5_FactsUnchanged == (kb_exists /\ pc # "start") => facts = loaded_facts

\* C6: in interactive mode no step of handling a question ends the session
\* or sets an exit status: a query that raises leaves the empty result list
\* and a printed error and goes on to formatting, formatting goes back to
\* the prompt, and so does an error raised by reading the input.
C6_ErrorsCaught ==
    [][/\ (interactive /\ pc \in {"translate", "execute", "format"})
            => (pc' # "exited" /\ exit_status' = None)
       /\ (interactive /\ pc = "execute" /\ prolog_query_run(prolog_query, facts).exc)
            => (results' = <<>> /\ pc' = "format"
                /\ \E i \in 1..Len(printed') : printed'[i] = "Query error")
       /\ (interactive /\ pc = "format") => pc' = "prompt"
       /\ (interactive /\ pc = "prompt" /\ pc' = "exited")
            => \E i \in 1..Len(printed') : printed'[i] = "Goodbye"]_vars

C6_Witness ==
    /\ interactive
    /\ pc = "prompt"
    /\ printed_has("Query error")
    /\ results = <<>>
    /\ formatted = NO_RESULTS

\* C7: a one-shot run whose query was executed ends with status 0 if the
\* query ran without an error, and with a non-zero status if it raised.
C7_ExitStatus ==
    (~interactive /\ pc = "exited" /\ "query" \in calls)
      => IF printed_has("Query error") THEN exit_status # 0 ELSE exit_status = 0

\* C8: when metadata_kb.pl, dataset_facts.pl or datapoint_facts.pl is
\* absent, the program never gets past startup: it ends with a non-zero
\* status before any question is translated.
C8_StartupAborts ==
    (~kb_exists \/ ~ds_exists \/ ~dp_exists)
      => /\ pc \in {"start", "exited"}
         /\ pc = "exited" => (exit_status # 0 /\ calls = {})

\* C9 as claimed: for an input that is help, exit or quit, whatever its
\* case, and whether it was read by the loop or given as the argument,
\* neither translate_to_prolog nor query is invoked.
C9_KeywordsBypass ==
    (question # None /\ lower(question) \in {"help", "exit", "quit"})
      => calls \cap {"translate_to_prolog", "query"} = {}

\* C9 as the code has it: the keywords are the loop's.  For a line the loop
\* reads that is, once stripped, help, exit, quit or q in any case, neither
\* translate_to_prolog nor query is invoked; the argument of a one-shot run
\* is always given to translate_to_prolog.
C9_LoopKeywordsBypass ==
    /\ (interactive /\ question # None /\ lower(question) \in {"help", "exit", "quit", "q"})
         => (calls \cap {"translate_to_prolog", "query"} = {} /\ pc \in {"prompt", "exited"})
    /\ (~interactive /\ pc \in {"execute", "format"}) => "translate_to_prolog" \in calls
    /\ (~interactive /\ pc = "exited" /\ kb_exists) => "translate_to_prolog" \in calls

C9_Witness ==
    /\ interactive
    /\ question = "EXIT"
    /\ calls = {}
    /\ pc = "exited"
    /\ exit_status = 0

\* the output that groups the rows by ViolationType
grouped_by_violation(res) == join_str(<<format_header(res)>> \o violation_lines(res), "\n")

\* C10: whenever the first binding of a non-empty result list holds
\* ViolationType, the output of format_results groups the rows by its value
\* and lists the ViewName values under each, whatever else is bound.
C10_ViolationTypeFirst ==
    (formatted # None /\ results # <<>> /\ has_key(results[1], "ViolationType"))
      => formatted = grouped_by_violation(results)

\* C11: whenever the rows of a non-empty result list bind ViewName and
\* ColumnName and no ViolationType, the output of format_results lists each
\* row as ViewName.ColumnName.
C11_QualifiedColumns ==
    (/\ formatted # None /\ results # <<>>
     /\ has_key(results[1], "ViewName") /\ has_key(results[1], "ColumnName")
     /\ ~has_key(results[1], "ViolationType"))
      => formatted = join_str(
             <<format_header(results)>>
               \o Numbered(results,
                           LAMBDA r : get(r, "ViewName") \o "." \o get(r, "ColumnName")),
             "\n")

(***************************************************************************)
(* format_results on its own, over result lists of up to MaxRows rows.     *)
(* The rows of one list bind the same variables, as the solutions of one   *)
(* query do.                                                               *)
(***************************************************************************)
MaxRows == 6

\* the i-th of the rows that bind the variables of shape, the rows spread
\* over k violation types
ResultRow(shape, i, k) ==
    [j \in 1..Len(shape) |->
        <<shape[j],
          CASE shape[j] = "ViewName" -> "view_" \o itoa(i)
            [] shape[j] = "ColumnName" -> "email"
            [] shape[j] = "ViolationType" ->
                 <<"MissingReviewer", "MissingValidator", "MissingSteward">>[((i - 1) % k) + 1]
            [] OTHER -> "x" \o itoa(i)>>]

\* the lists of at most n rows, over the variables a query may bind
ResultLists(n) ==
    { [i \in 1..m |-> ResultRow(shape, i, k)] :
        shape \in { <<"ViewName">>, <<"ViewName", "ColumnName">>,
                    <<"ViewName", "ViolationType">>,
                    <<"ViewName", "ColumnName", "Reason">>, <<"ColumnName">>,
                    <<"ColumnName", "ViolationType">>, <<"ViolationType">>,
                    <<"Lineage">> },
        m \in 0..n, k \in 1..3 }

InitFormat ==
    /\ pc = "format"
    /\ kb_exists = TRUE /\ ds_exists = TRUE /\ dp_exists = TRUE
    /\ use_ai = FALSE /\ ollama_available = FALSE
    /\ arg_question = None
    /\ facts = loaded_facts
    /\ question = None /\ prolog_query = None /\ message = None
    /\ results \in ResultLists(MaxRows)
    /\ formatted = None
    /\ printed = <<>> /\ calls = {} /\ ai_reply = NoReply /\ ai_requests = 0
    /\ exit_status = None
    /\ turn = 1
    /\ excel = [Dataset |-> <<>>, DataPoint |-> <<>>]
    /\ files = [dataset_facts |-> None, datapoint_facts |-> None]
    /\ counts = <<>>
    /\ rng = 0

SpecFormat == InitFormat /\ [][Format]_vars

\* C12: in the output that groups the rows by ViolationType, each group
\* shows at most 5 entities, and a group of more than 5 rows is followed by
\* the count of the rows not shown, so that shown plus remainder is the
\* number of rows of the group.
C12_CapAndRemainder ==
    (/\ formatted # None /\ results # <<>>
     /\ ~has_key(results[1], "ViewName") /\ ~has_key(results[1], "ColumnName")
     /\ has_key(results[1], "ViolationType"))
      => \A out \in {cut_at(formatted, { p \in 1..Len(formatted) :
                                            CharAt(formatted, p) = "\n" })} :
           \A i \in 1..Len(results) :
             \A vtype \in {get(results[i], "ViolationType")} :
               LET rows == Len(SelectSeq(results, LAMBDA r : get(r, "ViolationType") = vtype))
                   entity(l) == l \in 1..Len(out) /\ StartsAt(out[l], 1, "    - ")
                   h == CHOOSE l \in 1..Len(out) : out[l] = "  " \o vtype \o ":"
                   shown == Cardinality({ n \in 1..(Len(out) - h) :
                                            \A j \in 1..n : entity(h + j) })
               IN  /\ \E l \in 1..Len(out) : out[l] = "  " \o vtype \o ":"
                   /\ shown <= 5
                   /\ rows <= 5 => shown = rows
                   /\ rows > 5 =>
                        \E l \in 4..Len(out) :
                           ~entity(l) /\ contains(out[l], itoa(rows - shown))

\* C13: format_results returns 'No results found.' if and only if the
\* result list is empty, and every output for a non-empty list starts with
\* the header that carries the number of rows.
C13_HeaderCount ==
    formatted # None
      => /\ formatted = "No results found." <=> results = <<>>
         /\ results # <<>> =>
              StartsAt(formatted, 1, "\nFound " \o itoa(Len(results)) \o " results:\n")

C13_Witness ==
    /\ formatted # None
    /\ Len(results) = MaxRows
    /\ has_key(results[1], "ViolationType") /\ ~has_key(results[1], "ViewName")
    /\ StartsAt(formatted, 1, "\nFound ")

(***************************************************************************)
(* Lineage over fact bases that need not be acyclic: MaxNodes datapoints,  *)
(* each with no source or with any of the datapoints (itself included) as  *)
(* its source, and the question that traces the lineage of one of them.    *)
(***************************************************************************)
MaxNodes == 3

\* the i-th datapoint: column col of view_a, view_b, ...
LineageNode(i) == <<"view_" \o CharAt(LowerAlpha, i), "col">>

\* the datapoint facts where the source of datapoint i is datapoint src[i],
\* and 0 stands for none
LineageFacts(src) ==
    [i \in 1..Len(src) |->
        [DATAPOINT_FACTS[1] EXCEPT
            ![DP.view_name] = LineageNode(i)[1],
            ![DP.column_name] = LineageNode(i)[2],
            ![DP.source_view_name] = IF src[i] = 0 THEN NULL ELSE LineageNode(src[i])[1],
            ![DP.source_column_name] = IF src[i] = 0 THEN NULL ELSE LineageNode(src[i])[2]]]

InitLineage ==
    /\ pc = "translate"
    /\ kb_exists = TRUE /\ ds_exists = TRUE /\ dp_exists = TRUE
    /\ use_ai = FALSE /\ ollama_available = FALSE
    /\ arg_question = None
    /\ \E src \in [1..MaxNodes -> 0..MaxNodes] :
         facts = [dataset |-> <<>>, datapoint |-> LineageFacts(src), asserted |-> <<>>]
    /\ \E i \in 1..MaxNodes :
         question = "Trace lineage for " \o LineageNode(i)[1] \o "." \o LineageNode(i)[2]
    /\ prolog_query = None /\ message = None
    /\ results = <<>> /\ formatted = None
    /\ printed = <<>> /\ calls = {} /\ ai_reply = NoReply /\ ai_requests = 0
    /\ exit_status = None
    /\ turn = 1
    /\ excel = [Dataset |-> <<>>, DataPoint |-> <<>>]
    /\ files = [dataset_facts |-> None, datapoint_facts |-> None]
    /\ counts = <<>>
    /\ rng = 0

SpecLineage == InitLineage /\ [][Translate \/ Execute \/ Format]_vars

\* C14: full_lineage terminates on every fact base, cyclic ones included:
\* the chain starts at the node asked for, follows the source edges, meets no
\* node twice, and ends either at a node without a source or, on meeting a
\* node again, with the LineageCycle condition after the partial chain;
\* executing the query again yields the same chain.
C14_LineageTerminates ==
    "query" \in calls
      => \A i \in 1..MaxNodes :
           question = "Trace lineage for " \o LineageNode(i)[1] \o "." \o LineageNode(i)[2]
             => \A w \in {lineage_walk(facts, LineageNode(i), {})} :
                  LET c == w.chain
                      edge(n, m) ==
                          \E k \in 1..Len(facts.datapoint) :
                             LET d == facts.datapoint[k]
                             IN  /\ d[DP.view_name] = n[1] /\ d[DP.column_name] = n[2]
                                 /\ d[DP.source_view_name] = m[1]
                                 /\ d[DP.source_column_name] = m[2]
                      text(n) == n[1] \o "." \o n[2]
                  IN  /\ c # <<>> /\ c[1] = LineageNode(i)
                      /\ \A j, k \in 1..Len(c) : c[j] = c[k] => j = k
                      /\ \A j \in 1..(Len(c) - 1) : edge(c[j], c[j + 1])
                      /\ w.cycle <=> \E j \in 1..Len(c) : edge(c[Len(c)], c[j])
                      /\ ~w.cycle => \A k \in 1..MaxNodes : ~edge(c[Len(c)], LineageNode(k))
                      /\ results =
                           << << <<"Lineage",
                                   "[" \o join_str([j \in 1..Len(c) |-> text(c[j])], ", ")
                                       \o (IF w.cycle THEN ", LineageCycle" ELSE "") \o "]">> >> >>
                      /\ query(prolog_query, facts).results = results

\* the cycle A -> B -> A, asked from A
C14_Witness ==
    /\ "query" \in calls
    /\ question = "Trace lineage for view_a.col"
    /\ results = << << <<"Lineage", "[view_a.col, view_b.col, LineageCycle]">> >> >>

(***************************************************************************)
(* excel_to_prolog.py: the two sheets of the Excel file are written out as *)
(* Prolog facts, which NaturalLanguageInterface.__init__ then consults.    *)
(* A sheet is a sequence of rows, a row a sequence of <<column, cell>>,    *)
(* and a cell is a string, an integer, NaN (an empty cell) or None:        *)
(*   [kind |-> "str", text |-> s, number |-> 0]                            *)
(*   [kind |-> "int", text |-> "", number |-> n]                           *)
(*   [kind |-> "NaN" or "None", text |-> "", number |-> 0]                 *)
(* pc is the position:                                                     *)
(*   convert    before the two converters are called in main()             *)
(*   load       the fact files are written, the interface not yet built    *)
(*   loaded     __init__ has consulted the fact files                      *)
(***************************************************************************)
MaxRecords == 2

Cell(kind, text, number) == [kind |-> kind, text |-> text, number |-> number]

\* s.replace(old, new)
RECURSIVE replace(_, _, _)
replace(s, old, new) ==
    IF ~contains(s, old) THEN s
    ELSE SubSeq(s, 1, find(s, old) - 1) \o new
           \o replace(SubSeq(s, find(s, old) + Len(old), Len(s)), old, new)

safe_prolog_value(value) ==
    IF value.kind \in {"NaN", "None"} \/ (value.kind = "str" /\ value.text = "")
    THEN "null"
    ELSE IF value.kind = "int" THEN itoa(value.number)
    ELSE "'" \o replace(value.text, "'", "\\'") \o "'"

\* a faulty prolog_fact: a column the sheet does not have is left out
prolog_fact_present(name, row, columns) ==
    name \o "("
      \o join_str(MapSeq(LAMBDA c : safe_prolog_value(value_of(row, c)),
                         SelectSeq(columns, LAMBDA c : has_key(row, c))), ", ")
      \o ")."

\* f"name({safe_prolog_value(row.get(column))}, ...)."
prolog_fact(name, row, columns) ==
    name \o "("
      \o join_str([j \in 1..Len(columns) |->
                      safe_prolog_value(IF has_key(row, columns[j])
                                        THEN value_of(row, columns[j])
                                        ELSE Cell("None", "", 0))], ", ")
      \o ")."

\* the text written to output_file, and the value returned
convert_dataset_to_prolog(df) ==
    [text |->
        join_str(
          <<"% Dataset Facts",
            "% dataset(ViewID, ViewName, DataLayer, Name, SubjectArea, SubjectAreaSubCategory,",
            "%         DataSource, DataSourceID, Reviewer, TechnicalDesignReviewer, Processor, Validator).\n">>
            \o [i \in 1..Len(df) |->
                  prolog_fact("dataset", df[i],
                      <<"ViewID", "ViewName", "DataLayer", "Name", "SubjectArea",
                        "SubjectAreaSubCategory", "DataSource", "DataSourceID", "Reviewer",
                        "TechnicalDesignReviewer", "Processor", "Validator">>)],
          "\n"),
     count |-> Len(df)]

convert_datapoint_to_prolog(df) ==
    [text |->
        join_str(
          <<"% DataPoint Facts (Simplified Structure)",
            "% datapoint(DatapointID, SubjectArea, ViewID, ViewName, ColumnName, ColumnLabel,",
            "%           EnvironmentStatus, DbState, DataPointClass, Description,",
            "%           SourceDatapointID, SourceViewIDName, SourceViewIDColumnName,",
            "%           DataSteward, DataOwner, SensitivityLabel, SensitivityLabelRationale,",
            "%           CriticalDataElementIndicator).\n">>
            \o [i \in 1..Len(df) |->
                  prolog_fact("datapoint", df[i],
                      <<"DatapointID", "SubjectArea", "ViewID", "ViewName", "ColumnName",
                        "ColumnLabel", "EnvironmentStatus", "DbState", "DataPointClass",
                        "Description", "SourceDatapointID", "SourceViewIDName",
                        "SourceViewIDColumnName", "DataSteward", "DataOwner",
                        "SensitivityLabel", "SensitivityLabelRationale",
                        "CriticalDataElementIndicator">>)],
          "\n"),
     count |-> Len(df)]

\* self.prolog.consult(file): the clauses name/arity read from the text, in
\* order.  A line that is empty or a comment is passed over; inside a quoted
\* atom \\ stands for a backslash and \' for a quote (any other escape is
\* outside the values modelled and is taken not to read); a clause that
\* does not read is reported by the engine and left out.
consult(text, name, arity) ==
    LET lines == StripAll(cut_at(text, { p \in 1..Len(text) : CharAt(text, p) = "\n" }))
        clause(l) ==
            IF l = "" \/ Head(l) = "%" \/ ~endswith(l, ".") THEN <<>>
            ELSE LET body == replace(replace(SubSeq(l, 1, Len(l) - 1), "\\\\", "\f"),
                                      "\\'", "\t")
                     c == Compound(body)
                 IN  IF /\ ~contains(body, "\\")
                        /\ c.ok /\ c.name = name /\ Len(c.args) = arity
                        /\ \A j \in 1..Len(c.args) : IsTerm(c.args[j]) /\ ~IsVarName(c.args[j])
                     THEN << [j \in 1..arity |->
                                replace(replace(literal(c.args[j]), "\t", "'"), "\f", "\\")] >>
                     ELSE <<>>
    IN  Flatten([i \in 1..Len(lines) |-> clause(lines[i])])

\* the Excel files of at most n rows a sheet.  Every dataset row holds each
\* kind of cell; the Processor column is not in the sheet.  A value that
\* ends in a backslash is in the last row only: what the engine reads after
\* a clause whose quotes do not close is not modelled.
Sheets(n) ==
    LET str(s) == Cell("str", s, 0)
        dataset_rows ==
            { << <<"ViewID", str(k[1])>>, <<"ViewName", str(k[2])>>,
                 <<"DataLayer", str("Bronze")>>, <<"Name", str("")>>,
                 <<"SubjectArea", str("Customer")>>,
                 <<"SubjectAreaSubCategory", Cell("NaN", "", 0)>>,
                 <<"DataSource", str("CRM Platform")>>,
                 <<"DataSourceID", Cell("int", "", 17)>>,
                 <<"Reviewer", str(k[3])>>,
                 <<"TechnicalDesignReviewer", Cell("None", "", 0)>>,
                 <<"Validator", str("null")>> >> :
                k \in { <<"V0001", "bronze_a", "Ann">>, <<"V0001", "bronze_b", "Pat O'Neil">>,
                        <<"V0002", "bronze_b", "Ann">>, <<"V0003", "bronze_c", "HQ\\">> } }
        datapoint_rows ==
            { << <<"DatapointID", str("DP00001")>>, <<"SubjectArea", str("Customer")>>,
                 <<"ViewID", str("V0001")>>, <<"ViewName", str("bronze_a")>>,
                 <<"ColumnName", str(c)>>, <<"ColumnLabel", str("Label")>>,
                 <<"EnvironmentStatus", str("Production")>>, <<"DbState", str("Active")>>,
                 <<"DataPointClass", str("string")>>, <<"Description", str("")>>,
                 <<"SourceDatapointID", Cell("NaN", "", 0)>>,
                 <<"SourceViewIDName", Cell("NaN", "", 0)>>,
                 <<"SourceViewIDColumnName", Cell("NaN", "", 0)>>,
                 <<"DataSteward", IF c = "email" THEN str("Eve") ELSE Cell("NaN", "", 0)>>,
                 <<"DataOwner", str("Sales Team")>>,
                 <<"SensitivityLabel", str("Restricted")>>,
                 <<"SensitivityLabelRationale", str("")>>,
                 <<"CriticalDataElementIndicator", str("No")>> >> :
                c \in { "email", "id" } }
        up_to(S) == UNION { [1..m -> S] : m \in 0..n }
    IN  { [Dataset |-> ds, DataPoint |-> dp] :
            ds \in { d \in up_to(dataset_rows) :
                       \A i \in 1..(Len(d) - 1) : ~contains(value_of(d[i], "Reviewer").text, "\\") },
            dp \in up_to(datapoint_rows) }

InitConvert ==
    /\ pc = "convert"
    /\ kb_exists = TRUE /\ ds_exists = TRUE /\ dp_exists = TRUE
    /\ use_ai = FALSE /\ ollama_available = FALSE
    /\ arg_question = None
    /\ facts = [dataset |-> <<>>, datapoint |-> <<>>, asserted |-> <<>>]
    /\ question = None /\ prolog_query = None /\ message = None
    /\ results = <<>> /\ formatted = None
    /\ printed = <<>> /\ calls = {} /\ ai_reply = NoReply /\ ai_requests = 0
    /\ exit_status = None
    /\ turn = 0
    /\ excel \in Sheets(MaxRecords)
    /\ files = [dataset_facts |-> None, datapoint_facts |-> None]
    /\ counts = <<>>
    /\ rng = 0

\* main() of excel_to_prolog.py on an Excel file that exists and reads
Convert ==
    /\ pc = "convert"
    /\ \E ds \in {convert_dataset_to_prolog(excel.Dataset)} :
         \E dp \in {convert_datapoint_to_prolog(excel.DataPoint)} :
           /\ files' = [dataset_facts |-> ds.text, datapoint_facts |-> dp.text]
           /\ counts' = <<ds.count, dp.count>>
           /\ printed' = <<"Generated dataset_facts.pl (" \o itoa(ds.count) \o " facts)",
                           "Generated datapoint_facts.pl (" \o itoa(dp.count) \o " facts)">>
    /\ calls' = {"convert_dataset_to_prolog", "convert_datapoint_to_prolog"}
    /\ pc' = "load"
    /\ UNCHANGED <<rng, excel, kb_exists, ds_exists, dp_exists, use_ai, arg_question,
                   ollama_available, facts, question, prolog_query, message, results,
                   formatted, ai_reply, ai_requests, exit_status, turn>>

\* NaturalLanguageInterface.__init__ consulting the files just written
Load ==
    /\ pc = "load"
    /\ facts' = [dataset |-> consult(files.dataset_facts, "dataset", 12),
                 datapoint |-> consult(files.datapoint_facts, "datapoint", 18),
                 asserted |-> <<>>]
    /\ printed' = <<"Knowledge base loaded">>
    /\ pc' = "loaded"
    /\ UNCHANGED <<rng, excel, files, counts, kb_exists, ds_exists, dp_exists, use_ai,
                   arg_question, ollama_available, question, prolog_query, message,
                   results, formatted, calls, ai_reply, ai_requests, exit_status, turn>>

SpecConvert == InitConvert /\ [][Convert \/ Load]_vars

\* C15: no store is produced from an Excel file in which two Dataset rows
\* share a ViewName or a ViewID, or two DataPoint rows share
\* (ViewName, ColumnName): neither the conversion nor the load accepts it.
C15_DuplicateKeyRejected ==
    (\/ \E i, j \in 1..Len(excel.Dataset) :
          /\ i < j
          /\ \/ value_of(excel.Dataset[i], "ViewName") = value_of(excel.Dataset[j], "ViewName")
             \/ value_of(excel.Dataset[i], "ViewID") = value_of(excel.Dataset[j], "ViewID")
     \/ \E i, j \in 1..Len(excel.DataPoint) :
          /\ i < j
          /\ value_of(excel.DataPoint[i], "ViewName") = value_of(excel.DataPoint[j], "ViewName")
          /\ value_of(excel.DataPoint[i], "ColumnName")
               = value_of(excel.DataPoint[j], "ColumnName"))
      => /\ files = [dataset_facts |-> None, datapoint_facts |-> None]
         /\ facts.dataset = <<>> /\ facts.datapoint = <<>>
         /\ pc # "loaded"

\* C16: in the facts written, a cell that is absent (None or NaN) and a cell
\* that holds the empty string are encoded differently, and no cell that
\* holds a string is encoded as null.
C16_AbsentDistinctFromEmpty ==
    pc \in {"load", "loaded"}
      => \A lines \in {SelectSeq(StripAll(cut_at(files.dataset_facts,
                                   { p \in 1..Len(files.dataset_facts) :
                                       CharAt(files.dataset_facts, p) = "\n" })),
                                 LAMBDA l : StartsAt(l, 1, "dataset("))} :
           \A i \in 1..Len(excel.Dataset) :
             LET row == excel.Dataset[i]
                 written == Compound(replace(SubSeq(lines[i], 1, Len(lines[i]) - 1),
                                             "\\'", "\t")).args
             IN  \A j, k \in 1..Len(row) :
                   /\ (row[j][2].kind \in {"NaN", "None"} /\ row[k][2] = Cell("str", "", 0))
                        => \E a, b \in 1..Len(written) :
                              /\ written[a] = safe_prolog_value(row[j][2])
                              /\ written[b] = safe_prolog_value(row[k][2])
                              /\ written[a] # written[b]
                   /\ row[j][2].kind = "str"
                        => safe_prolog_value(row[j][2]) # "null"

\* the store that holds one clause a row, in row order, its arguments the
\* cells of the columns in the order given: null for an absent cell or an
\* empty string, the digits of a number, and the text of a string
facts_of(df, columns) ==
    [i \in 1..Len(df) |->
        [j \in 1..Len(columns) |->
            LET value == IF has_key(df[i], columns[j]) THEN value_of(df[i], columns[j])
                         ELSE Cell("None", "", 0)
            IN  IF value.kind \in {"NaN", "None"} \/ (value.kind = "str" /\ value.text = "")
                THEN NULL
                ELSE IF value.kind = "int" THEN itoa(value.number)
                ELSE value.text]]

\* C20: the converters write one fact for each row, in row order, with the
\* 12 (dataset) and 18 (datapoint) arguments in the documented order of the
\* fields, and return the number of rows.
C20_OneFactPerRow ==
    /\ pc \in {"load", "loaded"}
         => /\ counts = <<Len(excel.Dataset), Len(excel.DataPoint)>>
            /\ \A t \in {cut_at(files.dataset_facts,
                                { p \in 1..Len(files.dataset_facts) :
                                    CharAt(files.dataset_facts, p) = "\n" })} :
                 Len(SelectSeq(t, LAMBDA l : l # "" /\ Head(l) # "%")) = Len(excel.Dataset)
            /\ \A t \in {cut_at(files.datapoint_facts,
                                { p \in 1..Len(files.datapoint_facts) :
                                    CharAt(files.datapoint_facts, p) = "\n" })} :
                 Len(SelectSeq(t, LAMBDA l : l # "" /\ Head(l) # "%")) = Len(excel.DataPoint)
    /\ (/\ pc = "loaded"
        /\ \A i \in 1..Len(excel.Dataset) :
             ~contains(value_of(excel.Dataset[i], "Reviewer").text, "\\"))
         => /\ facts.dataset =
                 facts_of(excel.Dataset,
                     <<"ViewID", "ViewName", "DataLayer", "Name", "SubjectArea",
                       "SubjectAreaSubCategory", "DataSource", "DataSourceID", "Reviewer",
                       "TechnicalDesignReviewer", "Processor", "Validator">>)
            /\ facts.datapoint =
                 facts_of(excel.DataPoint,
                     <<"DatapointID", "SubjectArea", "ViewID", "ViewName", "ColumnName",
                       "ColumnLabel", "EnvironmentStatus", "DbState", "DataPointClass",
                       "Description", "SourceDatapointID", "SourceViewIDName",
                       "SourceViewIDColumnName", "DataSteward", "DataOwner",
                       "SensitivityLabel", "SensitivityLabelRationale",
                       "CriticalDataElementIndicator">>)

\* two rows with the same key and a quote in a value, converted and loaded
C20_Witness ==
    /\ pc = "loaded"
    /\ counts = <<2, 2>>
    /\ Len(facts.dataset) = 2 /\ Len(facts.dataset[1]) = 12
    /\ Len(facts.datapoint) = 2 /\ Len(facts.datapoint[1]) = 18
    /\ facts.dataset[1][9] = "Pat O'Neil"
    /\ facts.dataset[2][2] = "bronze_b"

\* C17: for each question at most one request is sent to /api/generate, and
\* none when AI mode is off or the server was found unreachable at startup;
\* the request is not repeated, and when it fails (an exception such as the
\* timeout, or a status other than 200) pattern_match takes over.
C17_AtMostOneRequest ==
    /\ ai_requests \in {0, 1}
    /\ (~use_ai \/ ~ollama_available) => ai_requests = 0
    /\ ai_requests = 1 => {"translate_to_prolog", "translate_with_ai"} \subseteq calls
    /\ (ai_requests = 1 /\ (ai_reply.exc # None \/ ai_reply.status # 200))
         => /\ "pattern_match" \in calls
            /\ <<prolog_query, message>> = pattern_match(question)

\* the one request timed out and the rules answered
C17_Witness ==
    /\ use_ai /\ ollama_available
    /\ ai_requests = 1
    /\ ai_reply.exc = "Timeout"
    /\ "pattern_match" \in calls
    /\ prolog_query = "datasets_in_layer('Gold', ViewName)"

\* C18: the candidate query is the response text with the code fences and
\* the leading explanation lines removed, cut to the first line that
\* remains, less one trailing period; an empty candidate is a failure of the
\* translation and yields no query.  A line counts as explanation when it
\* does not read as a query.
C18_CandidateQuery ==
    (/\ "translate_with_ai" \in calls
     /\ ai_reply.exc = None /\ ai_reply.status = 200 /\ ai_reply.json = "text")
      => \A t \in {strip(remove(remove(strip(ai_reply.text), "~~~prolog"), "~~~"))} :
           LET ls == StripAll(cut_at(t, { p \in 1..Len(t) : CharAt(t, p) = "\n" }))
               bare(l) == IF endswith(l, ".") THEN SubSeq(l, 1, Len(l) - 1) ELSE l
               explanation(l) == l # "" /\ ~parse_query(bare(l)).ok
               remaining == { i \in 1..Len(ls) : ~explanation(ls[i]) }
               candidate == IF remaining = {} THEN ""
                            ELSE bare(ls[CHOOSE i \in remaining :
                                            \A j \in remaining : i <= j])
           IN  IF candidate = ""
               THEN "pattern_match" \in calls
               ELSE prolog_query = candidate /\ "pattern_match" \notin calls

\* C19: for every question that contains 'lineage for V.C', V and C names
\* of lower-case letters and underscores, pattern_match returns exactly
\* full_lineage('V', 'C', Lineage) with that V and that C.
C19_LineageByName ==
    "pattern_match" \in calls
      => \A q \in {seen(question)} :
           re_search(<<Lit({"lineage for "}), Name, Lit({"."}), Name>>, q)
             => \A m \in {match_groups(<<Lit({"lineage for "}), Name, Lit({"."}), Name>>, q)} :
                  prolog_query = "full_lineage('" \o m[1] \o "', '" \o m[2] \o "', Lineage)"

(***************************************************************************)
(* generate_sample_data.py: the Dataset sheet, one row a layer of each     *)
(* subject area, then the DataPoint sheet, one row a column of each        *)
(* dataset.  The rows are those excel_to_prolog.py reads.  The values the  *)
(* code draws with random are drawn here from rng, the state of a          *)
(* generator started from one of MaxSeeds seeds; what the claims are about *)
(* (names, identifiers, sources) is computed as the code computes it.      *)
(* pc is the position:                                                     *)
(*   gen_datasets    in the loop of lines 88-113                           *)
(*   gen_datapoints  in the loop of lines 119-194, between two datasets    *)
(*   generated       the two sheets are complete                           *)
(***************************************************************************)
MaxSeeds == 4

sample_subject_areas == <<
    <<"Customer", "Customer Data", "CRM Platform", "CRM001">>,
    <<"Order", "Order Management", "Order System", "ORDER001">>,
    <<"Product", "Product Information", "Product Catalog", "PROD001">>,
    <<"Finance", "Financial Data", "ERP System", "ERP001">>,
    <<"Sales", "Sales Analytics", "Sales Platform", "SALES001">> >>

column_templates(subject_area) ==
    CASE subject_area = "Customer" -> <<
           <<"customer_id", "Customer ID", "string", FALSE>>,
           <<"email", "Email Address", "string", TRUE>>,
           <<"phone", "Phone Number", "string", TRUE>>,
           <<"first_name", "First Name", "string", TRUE>>,
           <<"last_name", "Last Name", "string", TRUE>>,
           <<"address", "Street Address", "string", TRUE>>,
           <<"city", "City", "string", FALSE>>,
           <<"state", "State", "string", FALSE>>,
           <<"zip_code", "Postal Code", "string", TRUE>>,
           <<"registration_date", "Registration Date", "date", FALSE>>,
           <<"loyalty_tier", "Loyalty Tier", "string", FALSE>>,
           <<"total_lifetime_value", "Total Lifetime Value", "number", FALSE>> >>
      [] subject_area = "Order" -> <<
           <<"order_id", "Order ID", "string", FALSE>>,
           <<"customer_id", "Customer ID", "string", FALSE>>,
           <<"order_date", "Order Date", "date", FALSE>>,
           <<"total_amount", "Total Amount", "number", FALSE>>,
           <<"order_status", "Order Status", "string", FALSE>>,
           <<"payment_method", "Payment Method", "string", TRUE>>,
           <<"shipping_address", "Shipping Address", "string", TRUE>>,
           <<"discount_applied", "Discount Applied", "number", FALSE>> >>
      [] subject_area = "Product" -> <<
           <<"product_id", "Product ID", "string", FALSE>>,
           <<"product_name", "Product Name", "string", FALSE>>,
           <<"category", "Category", "string", FALSE>>,
           <<"price", "Price", "number", FALSE>>,
           <<"stock_quantity", "Stock Quantity", "number", FALSE>>,
           <<"supplier_id", "Supplier ID", "string", FALSE>>,
           <<"description", "Description", "string", FALSE>> >>
      [] subject_area = "Finance" -> <<
           <<"transaction_id", "Transaction ID", "string", FALSE>>,
           <<"account_number", "Account Number", "string", TRUE>>,
           <<"amount", "Amount", "number", FALSE>>,
           <<"transaction_date", "Transaction Date", "date", FALSE>>,
           <<"transaction_type", "Transaction Type", "string", FALSE>>,
           <<"balance", "Account Balance", "number", TRUE>> >>
      [] subject_area = "Sales" -> <<
           <<"sale_id", "Sale ID", "string", FALSE>>,
           <<"product_id", "Product ID", "string", FALSE>>,
           <<"quantity", "Quantity Sold", "number", FALSE>>,
           <<"revenue", "Revenue", "number", FALSE>>,
           <<"sale_date", "Sale Date", "date", FALSE>>,
           <<"region", "Sales Region", "string", FALSE>> >>

\* the j-th number drawn for a record from the generator in state r, in 0..n-1
randrange(r, j, n) == ((r + 1) * (2 * j + 1) + j) % n

\* a faulty numbering: only the last digit of the counter is kept
numbered_id_last_digit(prefix, n, width) == prefix \o itoa(n % 10)

\* f'{prefix}{n:0{width}d}'
numbered_id(prefix, n, width) ==
    prefix \o SubSeq("00000", 1, IF Len(itoa(n)) < width THEN width - Len(itoa(n)) ELSE 0)
           \o itoa(n)

\* lines 88-113: the dict appended for the layer of the subject area, with
\* view_id_counter as it stands
sample_dataset(area, layer, view_id_counter, r) ==
    LET str(s) == Cell("str", s, 0)
        stewards == <<"Alice Johnson", "Bob Smith", "Carol Williams", "David Brown",
                      "Eve Martinez">>
        processors == <<"Data Engineering", "Analytics Team", "IT Department">>
        choice_or_none(seq, q, j, p) ==    \* random.choice(seq) if random.random() > p/10 else None
            IF randrange(q, j, 10) >= p
            THEN Cell("str", seq[randrange(q, j + 1, Len(seq)) + 1], 0)
            ELSE Cell("None", "", 0)
    IN  << <<"ViewID", str(numbered_id("V", view_id_counter, 4))>>,
           <<"ViewName", str(lower(layer) \o "_" \o lower(area[1]) \o "_data")>>,
           <<"DataLayer", str(layer)>>,
           <<"Name", str(layer \o " " \o area[1] \o " View")>>,
           <<"SubjectArea", str(area[1])>>,
           <<"SubjectAreaSubCategory", str(area[2])>>,
           <<"DataSource", str(area[3])>>,
           <<"DataSourceID", str(area[4])>>,
           <<"Reviewer", choice_or_none(stewards, r, 1, 1)>>,
           <<"TechnicalDesignReviewer", choice_or_none(stewards, r, 3, 2)>>,
           <<"Processor", str(processors[randrange(r, 7, 3) + 1])>>,
           <<"Validator", choice_or_none(stewards, r, 5, 2)>> >>

\* a faulty source: the column is its own source
lineage_source_self(layer, view_name, col_name, datapoint_id) ==
    [source_datapoint_id |-> Cell("None", "", 0),
     source_view_name |-> Cell("str", view_name, 0),
     source_column |-> Cell("str", col_name, 0)]

\* lines 129-146: the source of the column col_name of view_name, by layer
lineage_source(layer, view_name, col_name, datapoint_id) ==
    LET str(s) == Cell("str", s, 0)
        none == Cell("None", "", 0)
        back == IF datapoint_id > 100 THEN str(numbered_id("DP", datapoint_id - 100, 5))
                ELSE none
    IN  IF layer = "Silver"
        THEN [source_datapoint_id |-> back,
              source_view_name |-> str(replace(view_name, "silver_", "bronze_")),
              source_column |-> str(col_name)]
        ELSE IF layer = "Gold"
        THEN [source_datapoint_id |-> back,
              source_view_name |-> str(replace(view_name, "gold_", "silver_")),
              source_column |-> str(col_name)]
        ELSE [source_datapoint_id |-> none, source_view_name |-> none,
              source_column |-> none]

\* lines 127-194: the dicts appended for the columns of one dataset, with
\* datapoint_id as it stands before the first
sample_datapoints(dataset, datapoint_id, r) ==
    LET str(s) == Cell("str", s, 0)
        none == Cell("None", "", 0)
        subject_area == value_of(dataset, "SubjectArea").text
        view_name == value_of(dataset, "ViewName").text
        layer == value_of(dataset, "DataLayer").text
        columns == column_templates(subject_area)
        stewards == <<"Alice Johnson", "Bob Smith", "Carol Williams", "David Brown",
                      "Eve Martinez">>
        owners == <<"Finance Team", "Sales Team", "Customer Service", "Data Engineering",
                    "Product Team">>
        choice_or_none(seq, q, j, p) ==    \* random.choice(seq) if random.random() > p/10 else None
            IF randrange(q, j, 10) >= p
            THEN Cell("str", seq[randrange(q, j + 1, Len(seq)) + 1], 0)
            ELSE Cell("None", "", 0)
        row(c) ==
            LET id == datapoint_id + c - 1
                q == r + c
                source == lineage_source(layer, view_name, columns[c][1], id)
                is_sensitive == columns[c][4]
            IN  << <<"DatapointID", str(numbered_id("DP", id, 5))>>,
                   <<"SubjectArea", str(subject_area)>>,
                   <<"ViewID", value_of(dataset, "ViewID")>>,
                   <<"ViewName", str(view_name)>>,
                   <<"ColumnName", str(columns[c][1])>>,
                   <<"ColumnLabel", str(columns[c][2])>>,
                   <<"EnvironmentStatus",
                     str(IF layer = "Bronze"
                         THEN <<"Production", "Production", "Development">>[randrange(q, 5, 3) + 1]
                         ELSE IF layer = "Silver"
                         THEN <<"Production", "UAT", "Development">>[randrange(q, 5, 3) + 1]
                         ELSE <<"Production", "UAT">>[randrange(q, 5, 2) + 1])>>,
                   <<"DbState",
                     str(<<"Active", "Active", "Active", "Deprecated">>[randrange(q, 6, 4) + 1])>>,
                   <<"DataPointClass", str(columns[c][3])>>,
                   <<"Description", str(columns[c][2] \o " for " \o subject_area \o " domain")>>,
                   <<"SourceDatapointID", source.source_datapoint_id>>,
                   <<"SourceViewIDName", source.source_view_name>>,
                   <<"SourceViewIDColumnName", source.source_column>>,
                   <<"DataSteward", choice_or_none(stewards, q, 2, 2)>>,
                   <<"DataOwner", str(owners[randrange(q, 4, 5) + 1])>>,
                   <<"SensitivityLabel",
                     str(IF is_sensitive
                         THEN <<"Confidential", "Restricted">>[randrange(q, 0, 2) + 1]
                         ELSE <<"Internal", "Public">>[randrange(q, 0, 2) + 1])>>,
                   <<"SensitivityLabelRationale",
                     str(IF is_sensitive
                         THEN "Contains personally identifiable information (PII)"
                         ELSE "Non-sensitive business data")>>,
                   <<"CriticalDataElementIndicator",
                     str(IF is_sensitive THEN <<"Yes", "No">>[randrange(q, 1, 2) + 1]
                         ELSE "No")>> >>
    IN  [c \in 1..Len(columns) |-> row(c)]

InitGenerate ==
    /\ pc = "gen_datasets"
    /\ kb_exists = TRUE /\ ds_exists = FALSE /\ dp_exists = FALSE
    /\ use_ai = FALSE /\ ollama_available = FALSE
    /\ arg_question = None
    /\ facts = [dataset |-> <<>>, datapoint |-> <<>>, asserted |-> <<>>]
    /\ question = None /\ prolog_query = None /\ message = None
    /\ results = <<>> /\ formatted = None
    /\ printed = <<>> /\ calls = {} /\ ai_reply = NoReply /\ ai_requests = 0
    /\ exit_status = None
    /\ turn = 0
    /\ excel = [Dataset |-> <<>>, DataPoint |-> <<>>]
    /\ files = [dataset_facts |-> None, datapoint_facts |-> None]
    /\ counts = <<>>
    /\ rng \in 0..(MaxSeeds - 1)

\* one pass of the inner loop of lines 88-113
GenDataset ==
    /\ pc = "gen_datasets"
    /\ \E k \in {Len(excel.Dataset)} :
         /\ excel' = [excel EXCEPT !.Dataset =
                        Append(@, sample_dataset(sample_subject_areas[(k \div 3) + 1],
                                                 <<"Bronze", "Silver", "Gold">>[(k % 3) + 1],
                                                 k + 1, rng))]
         /\ pc' = IF k + 1 = 3 * Len(sample_subject_areas)
                  THEN "gen_datapoints" ELSE "gen_datasets"
    /\ rng' = (5 * rng + 1) % 16
    /\ UNCHANGED <<files, counts, kb_exists, ds_exists, dp_exists, use_ai, arg_question,
                   ollama_available, facts, question, prolog_query, message, results,
                   formatted, printed, calls, ai_reply, ai_requests, exit_status, turn>>

\* one pass of the loop of lines 119-194: the columns of the next dataset;
\* after the last, the sheets are written (lines 196-208)
GenDatapoints ==
    /\ pc = "gen_datapoints"
    /\ \E d \in {Cardinality({ value_of(excel.DataPoint[i], "ViewName") :
                                 i \in 1..Len(excel.DataPoint) }) + 1} :
         /\ excel' = [excel EXCEPT !.DataPoint =
                        @ \o sample_datapoints(excel.Dataset[d], Len(@) + 1, rng)]
         /\ IF d = Len(excel.Dataset)
            THEN /\ pc' = "generated"
                 /\ printed' = <<"Datasets: " \o itoa(Len(excel'.Dataset)),
                                 "Datapoints: " \o itoa(Len(excel'.DataPoint))>>
            ELSE pc' = "gen_datapoints" /\ UNCHANGED printed
    /\ rng' = (5 * rng + 1) % 16
    /\ UNCHANGED <<files, counts, kb_exists, ds_exists, dp_exists, use_ai, arg_question,
                   ollama_available, facts, question, prolog_query, message, results,
                   formatted, calls, ai_reply, ai_requests, exit_status, turn>>

SpecGenerate == InitGenerate /\ [][GenDataset \/ GenDatapoints]_vars

\* C21: in the generated data no Bronze datapoint has a source; the source
\* of a Silver datapoint is the column of the same name of the Bronze view
\* of its subject area, and that of a Gold datapoint the column of the same
\* name of the Silver view; every declared source is a datapoint of the
\* data; and no chain of sources is longer than two edges.
C21_LineageDag ==
    pc = "generated"
      => \A ds \in {excel.Dataset} : \A dp \in {excel.DataPoint} :
           LET text(row, k) == value_of(row, k).text
               declared(p) == \/ value_of(p, "SourceViewIDName").kind # "None"
                              \/ value_of(p, "SourceViewIDColumnName").kind # "None"
               is_source(j, p) ==
                   /\ value_of(dp[j], "ViewName") = value_of(p, "SourceViewIDName")
                   /\ value_of(dp[j], "ColumnName") = value_of(p, "SourceViewIDColumnName")
               view_in(area, layer) ==
                   { text(ds[d], "ViewName") : d \in { e \in 1..Len(ds) :
                        /\ text(ds[e], "SubjectArea") = area
                        /\ text(ds[e], "DataLayer") = layer } }
           IN  \A i \in 1..Len(dp) :
                 LET p == dp[i]
                     d == ds[CHOOSE e \in 1..Len(ds) :
                               text(ds[e], "ViewName") = text(p, "ViewName")]
                     layer == text(d, "DataLayer")
                     from(lower_layer) ==
                         /\ declared(p)
                         /\ view_in(text(d, "SubjectArea"), lower_layer)
                              = {text(p, "SourceViewIDName")}
                         /\ text(p, "SourceViewIDColumnName") = text(p, "ColumnName")
                 IN  /\ layer \in {"Bronze", "Silver", "Gold"}
                     /\ layer = "Bronze" => ~declared(p)
                     /\ layer = "Silver" => from("Bronze")
                     /\ layer = "Gold" => from("Silver")
                     /\ declared(p) => \E j \in 1..Len(dp) : is_source(j, p)
                     /\ \A j \in 1..Len(dp) :
                          (declared(p) /\ is_source(j, p) /\ declared(dp[j]))
                            => \A k \in 1..Len(dp) : is_source(k, dp[j]) => ~declared(dp[k])

\* all 117 datapoints are generated, the Gold ones with their Silver source
C21_Witness ==
    /\ pc = "generated"
    /\ Len(excel.DataPoint) = 117
    /\ \E i \in 1..Len(excel.DataPoint) :
         /\ value_of(excel.DataPoint[i], "ViewName").text = "gold_sales_data"
         /\ value_of(excel.DataPoint[i], "ColumnName").text = "region"
         /\ value_of(excel.DataPoint[i], "SourceViewIDName").text = "silver_sales_data"
         /\ value_of(excel.DataPoint[i], "SourceViewIDColumnName").text = "region"

\* C22: in the generated data, a datapoint that holds a SourceDatapointID
\* holds the DatapointID of the datapoint that its SourceViewIDName and
\* SourceViewIDColumnName name.
C22_BackReference ==
    pc = "generated"
      => \A dp \in {excel.DataPoint} :
           \A i \in 1..Len(dp) :
             value_of(dp[i], "SourceDatapointID").kind # "None"
               => \E j \in 1..Len(dp) :
                    /\ value_of(dp[j], "ViewName") = value_of(dp[i], "SourceViewIDName")
                    /\ value_of(dp[j], "ColumnName") = value_of(dp[i], "SourceViewIDColumnName")
                    /\ value_of(dp[j], "DatapointID") = value_of(dp[i], "SourceDatapointID")

\* C23: in the generated data ViewName and ViewID are unique among the
\* datasets, DatapointID and (ViewName, ColumnName) are unique among the
\* datapoints, the ViewName and ViewID of every datapoint are those of one
\* dataset, and every subject area has exactly one dataset in each of
\* Bronze, Silver and Gold.
C23_KeyInvariants ==
    pc = "generated"
      => \A ds \in {excel.Dataset} : \A dp \in {excel.DataPoint} :
           /\ \A i, j \in 1..Len(ds) :
                (\/ value_of(ds[i], "ViewName") = value_of(ds[j], "ViewName")
                 \/ value_of(ds[i], "ViewID") = value_of(ds[j], "ViewID")) => i = j
           /\ \A key \in {[i \in 1..Len(dp) |->
                             <<value_of(dp[i], "DatapointID").text,
                               value_of(dp[i], "ViewName").text,
                               value_of(dp[i], "ColumnName").text,
                               value_of(dp[i], "ViewID").text>>]} :
                /\ \A i, j \in 1..Len(dp) :
                     (\/ key[i][1] = key[j][1]
                      \/ (key[i][2] = key[j][2] /\ key[i][3] = key[j][3])) => i = j
                /\ \A i \in 1..Len(dp) :
                     Cardinality({ d \in 1..Len(ds) :
                                     /\ value_of(ds[d], "ViewName").text = key[i][2]
                                     /\ value_of(ds[d], "ViewID").text = key[i][4] }) = 1
                /\ \A i \in 1..Len(dp) : key[i][1] # "" /\ key[i][2] # "" /\ key[i][3] # ""
           /\ \A a \in 1..Len(sample_subject_areas) :
                \A layer \in {"Bronze", "Silver", "Gold"} :
                  Cardinality({ d \in 1..Len(ds) :
                                  /\ value_of(ds[d], "SubjectArea").text = sample_subject_areas[a][1]
                                  /\ value_of(ds[d], "DataLayer").text = layer }) = 1
           /\ \A d \in 1..Len(ds) :
                \E a \in 1..Len(sample_subject_areas) :
                   value_of(ds[d], "SubjectArea").text = sample_subject_areas[a][1]

\* the 15 datasets and the 117 datapoints, numbered to the last
C23_Witness ==
    /\ pc = "generated"
    /\ Len(excel.Dataset) = 15
    /\ value_of(excel.Dataset[15], "ViewID").text = "V0015"
    /\ value_of(excel.Dataset[15], "ViewName").text = "gold_sales_data"
    /\ value_of(excel.DataPoint[117], "DatapointID").text = "DP00117"

(***************************************************************************)
(* The interactive loop at the end of the input stream.  Once the MaxTurns *)
(* inputs have been read, input() raises EOFError at every call: the       *)
(* except Exception clause prints the error and the loop goes round.  pc   *)
(* is "except" between the raise and the print.                            *)
(***************************************************************************)
ReadEOF ==
    /\ \/ /\ pc = "prompt"
          /\ turn = MaxTurns
          /\ pc' = "except"
          /\ printed' = <<>>
       \/ /\ pc = "except"
          /\ pc' = "prompt"
          /\ printed' = <<"Error">>
    /\ prolog_query' = None /\ message' = None /\ results' = <<>> /\ formatted' = None
    /\ ai_reply' = NoReply /\ ai_requests' = 0
    /\ calls' = {} /\ question' = None
    /\ UNCHANGED <<rng, excel, files, counts, kb_exists, ds_exists, dp_exists, use_ai,
                   arg_question, ollama_available, facts, exit_status, turn>>

\* The process keeps running: at the end of the input the loop takes its
\* next step.  Nothing is assumed of the user, who may stop typing.
SpecLive == Init /\ [][Next \/ ReadEOF]_vars /\ WF_vars(ReadEOF)

\* C24: an interactive session that waits at the prompt when no further
\* input can be read eventually ends.
C24_SessionEnds ==
    (interactive /\ pc = "prompt" /\ turn = MaxTurns) ~> (pc = "exited")

\* the predicates translate_with_ai describes to the model, with the number
\* of arguments each is shown with
predicates_help == {
    <<"datasets_in_layer", 2>>, <<"datasets_in_subject_area", 2>>,
    <<"datasets_from_source", 2>>, <<"datasets_filtered", 3>>,
    <<"dataset_without_reviewer", 1>>, <<"dataset_without_validator", 1>>,
    <<"dataset_with_governance_gap", 1>>, <<"gold_without_governance", 1>>,
    <<"datapoint_without_steward", 2>>, <<"governance_violation", 2>>,
    <<"confidential_data", 2>>, <<"pii_data", 2>>, <<"critical_data", 2>>,
    <<"high_risk_data", 3>>, <<"production_pii_without_steward", 2>>,
    <<"immediate_source", 4>>, <<"full_lineage", 3>>, <<"downstream_impact", 4>>,
    <<"complete_pipeline", 1>>, <<"incomplete_pipeline", 1>> }

\* C25: every goal of a query that pattern_match produced names a predicate
\* of the catalog, the list of predicates_help.
C25_ClosedCatalog ==
    ("pattern_match" \in calls /\ ~Falsy(prolog_query))
      => \A p \in {parse_query(prolog_query)} :
           /\ p.ok
           /\ \A i \in 1..Len(p.goals) :
                <<p.goals[i].name, Len(p.goals[i].args)>> \in predicates_help

\* C26: a cell that holds a non-empty string is written as a quoted atom
\* that reads back as the string: once the files written from the sheet are
\* loaded, the clause of every Dataset row is in the engine, its arguments
\* the values of the row.
C26_AtomReadsBack ==
    pc = "loaded"
      => \A rows \in {facts_of(excel.Dataset,
                        <<"ViewID", "ViewName", "DataLayer", "Name", "SubjectArea",
                          "SubjectAreaSubCategory", "DataSource", "DataSourceID", "Reviewer",
                          "TechnicalDesignReviewer", "Processor", "Validator">>)} :
           \A i \in 1..Len(rows) :
             \E k \in 1..Len(facts.dataset) : facts.dataset[k] = rows[i]
====
